---------------------------- MODULE Spec2Model ----------------------------
(***************************************************************************)
(* Model of the pipeline of psai-teknoledg.                                *)
(*                                                                         *)
(* Orchestrator.  Two Flask applications carry the same orchestrator:      *)
(*   clients/client1/psai_a/scripts/web_backend.py  (process_status,       *)
(*       get_status, run_process, PSAIProcessor.process_with_settings)     *)
(*   unified_system.py  (psai_process_status, get_psai_status,             *)
(*       run_psai_process, run_psai_sequence)                              *)
(* The variable app says which of the two the process is.  The status      *)
(* dictionary is shared by the request handlers and by the background      *)
(* threads; every Python statement that writes it is one atomic step, so   *)
(* a handler or another thread can run between any two of them.            *)
(*                                                                         *)
(* Collector.  clients/client1/psai_a/scripts/harvest.py (DataHarvester):  *)
(* one process constructs a harvester and calls harvest_all_sources once;  *)
(* the cache file outlives the process.                                    *)
(*                                                                         *)
(* Model calls and parsers.  scripts/extract.py (ContentExtractor) and     *)
(* clients/client1/psai_a/scripts/report.py (ReportGenerator).             *)
(*                                                                         *)
(* Every component has its own specification; in it the variables of the   *)
(* other components keep the value Absent.                                 *)
(***************************************************************************)
EXTENDS Integers, Sequences, FiniteSets, TLC

VARIABLES
    app,            \* "web_backend" or "unified_system"
    running,        \* process_status['running']
    current_stage,  \* process_status['current_stage']
    progress,       \* process_status['progress']
    results,        \* process_status['results']: the stages that have an entry
    error,          \* process_status['error']
    threads,        \* the background threads, one per accepted run, in order of acceptance:
                    \* at = the statement the thread executes next, k = index of its stage,
                    \* exc = the exception it handles, log = what it has done so far
    response,       \* the HTTP response of the step just taken (NoResponse after a thread step)
    harvester,      \* the DataHarvester object: config, harvested_items, duplicate_cache, reddit, youtube
    cache_file,     \* the file config['deduplication']['cache_file']
    harvest_run,    \* the position of harvest_all_sources and what the sources delivered to it
    accepted,       \* the fingerprints of the items that earlier harvest_all_sources calls returned
    invoker,        \* _call_ollama: the object it belongs to, its position, the generate calls made, its result
    args,           \* the arguments of the function that the specification of a function applies
    ret             \* whether the function has returned, and its return value

orchestrator_vars == <<app, running, current_stage, progress, results, error, threads, response>>

harvest_vars == <<harvester, cache_file, harvest_run, accepted>>

function_vars == <<invoker, args, ret>>

vars == <<orchestrator_vars, harvest_vars, function_vars>>

status_vars == <<running, current_stage, progress, results, error>>

-----------------------------------------------------------------------------
(* Bounds *)

\* number of runs accepted in one behaviour
MaxRuns == 2

\* number of runs accepted in one behaviour of the fair specification
LiveMaxRuns == 1

-----------------------------------------------------------------------------
(* Values *)

None == "None"

\* the value of a variable in the specifications of the other components
Absent == "Absent"

NoHarvest ==
    /\ harvester = Absent
    /\ cache_file = Absent
    /\ harvest_run = Absent
    /\ accepted = Absent

NoInvoker == invoker = Absent

NoFunction ==
    /\ args = Absent
    /\ ret = Absent

Apps == {"web_backend", "unified_system"}

Stages == <<"HARVEST", "EXTRACT", "REPORT", "REVIEW">>

StageNames == {Stages[k] : k \in 1..Len(Stages)}

\* request.json of a start request: falsy (no body, {}) or a settings object
Settings == {"empty", "settings"}

\* results = {}
NoResults == {}

\* InitialStatus with the stage set before any run
InitialStatus_staged ==
    [running |-> FALSE, current_stage |-> "HARVEST", progress |-> 0,
     results |-> NoResults, error |-> None]

\* the module-level dictionary process_status / psai_process_status
InitialStatus ==
    [running |-> FALSE, current_stage |-> None, progress |-> 0,
     results |-> NoResults, error |-> None]

\* A stage function returns ("ok") or raises.  A subprocess that ends with a
\* non-zero return code (raise Exception("... failed: ...")), a subprocess
\* that exceeds its timeout (subprocess.TimeoutExpired) and any other error
\* of the stage function (settings.get on a non-dict, open, json.load) are
\* all instances of Exception and enter the same except clause: "raise".
\* _prepare_review only builds a dictionary from settings that the earlier
\* stages have already read with .get.
WebOutcomes(k) ==
    IF k \in {1, 2, 3} THEN {"ok", "raise"} ELSE {"ok"}

\* simulate_harvest raises on settings that are not a dict, simulate_report
\* on a maxLength that int() rejects; simulate_extract and simulate_review
\* read only what earlier stages have read.
UnifiedOutcomes(k) ==
    IF k \in {1, 3} THEN {"ok", "raise"} ELSE {"ok"}

Outcomes(a, k) == IF a = "web_backend" THEN WebOutcomes(k) ELSE UnifiedOutcomes(k)

\* str(e) of the exception a stage raised: a non-empty text
StrOf(o) == "str(e)"

\* the entries of a run's log: what the run did, to which stage
Events ==
    [stage   |-> <<"stage HARVEST", "stage EXTRACT", "stage REPORT", "stage REVIEW">>,
     call    |-> <<"call HARVEST", "call EXTRACT", "call REPORT", "call REVIEW">>,
     return  |-> <<"return HARVEST", "return EXTRACT", "return REPORT", "return REVIEW">>,
     raise   |-> <<"raise HARVEST", "raise EXTRACT", "raise REPORT", "raise REVIEW">>,
     store   |-> <<"store HARVEST", "store EXTRACT", "store REPORT", "store REVIEW">>]

Ev(op, k) == Events[op][k]

NoResponse == [kind |-> "none"]

\* threading.Thread(target=run_in_background); thread.start()
NewThread == [at |-> "reset_running", k |-> 1, exc |-> None, log |-> <<>>]

Snapshot ==
    [running |-> running, current_stage |-> current_stage, progress |-> progress,
     results |-> results, error |-> error]

-----------------------------------------------------------------------------
(* Initial state: the module has been imported, no request was served *)

Init ==
    /\ app \in Apps
    /\ running = InitialStatus.running
    /\ current_stage = InitialStatus.current_stage
    /\ progress = InitialStatus.progress
    /\ results = InitialStatus.results
    /\ error = InitialStatus.error
    /\ threads = <<>>
    /\ response = NoResponse
    /\ NoHarvest
    /\ NoInvoker
    /\ NoFunction

-----------------------------------------------------------------------------
(* Request handlers *)

\* GET /api/status: return jsonify(process_status)
get_status ==
    /\ response' = [kind |-> "status", code |-> 200, body |-> Snapshot]
    /\ UNCHANGED <<app, status_vars, threads>>

\* POST /api/run, the two tests before the thread is started:
\* if process_status['running'] -> 400; if not settings -> 400
Accepts(settings) == ~running /\ settings # "empty"

\* POST /api/run
run_process(settings, cap) ==
    /\ IF running
         THEN /\ response' = [kind |-> "run", code |-> 400, body |-> "already running"]
              /\ UNCHANGED threads
         ELSE IF settings = "empty"
           THEN /\ response' = [kind |-> "run", code |-> 400, body |-> "No settings provided"]
                /\ UNCHANGED threads
           ELSE /\ Len(threads) < cap
                /\ threads' = Append(threads, NewThread)
                /\ response' = [kind |-> "run", code |-> 200, body |-> "started"]
    /\ UNCHANGED <<app, status_vars>>

-----------------------------------------------------------------------------
(* The background thread of run r *)

At(r, a) == r \in DOMAIN threads /\ threads[r].at = a

\* the thread moves on: new position, stage index, pending exception, log
Goto(r, a, k, exc, events) ==
    threads' = [threads EXCEPT ![r] =
                   [at |-> a, k |-> k, exc |-> exc, log |-> threads[r].log \o events]]

Stay(r, a) == Goto(r, a, threads[r].k, threads[r].exc, <<>>)

\* process_status['running'] = True
reset_running(r) ==
    /\ At(r, "reset_running")
    /\ running' = TRUE
    /\ Stay(r, "reset_stage")
    /\ response' = NoResponse
    /\ UNCHANGED <<app, current_stage, progress, results, error>>

\* process_status['current_stage'] = 'HARVEST'
reset_stage(r) ==
    /\ At(r, "reset_stage")
    /\ current_stage' = Stages[1]
    /\ Goto(r, "reset_progress", 1, None, <<Ev("stage", 1)>>)
    /\ response' = NoResponse
    /\ UNCHANGED <<app, running, progress, results, error>>

\* process_status['progress'] = 0
reset_progress(r) ==
    /\ At(r, "reset_progress")
    /\ progress' = 0
    /\ Stay(r, "reset_results")
    /\ response' = NoResponse
    /\ UNCHANGED <<app, running, current_stage, results, error>>

\* process_status['results'] = {}
reset_results(r) ==
    /\ At(r, "reset_results")
    /\ results' = NoResults
    /\ Stay(r, "reset_error")
    /\ response' = NoResponse
    /\ UNCHANGED <<app, running, current_stage, progress, error>>

\* process_status['error'] = None
reset_error(r) ==
    /\ At(r, "reset_error")
    /\ error' = None
    /\ Stay(r, "call")
    /\ response' = NoResponse
    /\ UNCHANGED <<app, running, current_stage, progress, results>>

\* call_stage whose result is never stored: the run goes from the call
\* straight to the progress update
call_stage_nostore(r) ==
    /\ At(r, "call")
    /\ \E o \in Outcomes(app, threads[r].k) :
         LET k == threads[r].k IN
         IF o = "ok"
           THEN Goto(r, "progress", threads[r].k, None,
                     <<Ev("call", k), Ev("return", k)>>)
           ELSE Goto(r, "except_error", threads[r].k, o,
                     <<Ev("call", k), Ev("raise", k)>>)
    /\ response' = NoResponse
    /\ UNCHANGED <<app, status_vars>>

\* call_stage that swallows the exception of the stage function and goes on
call_stage_swallow(r) ==
    /\ At(r, "call")
    /\ \E o \in Outcomes(app, threads[r].k) :
         LET k == threads[r].k IN
         IF o = "ok"
           THEN Goto(r, "store", threads[r].k, None,
                     <<Ev("call", k), Ev("return", k)>>)
           ELSE Goto(r, "store", threads[r].k, o,
                     <<Ev("call", k), Ev("raise", k)>>)
    /\ response' = NoResponse
    /\ UNCHANGED <<app, status_vars>>

\* x_result = self._harvest_data(settings), ... : the stage function runs
\* and returns, or raises into the except clause
call_stage(r) ==
    /\ At(r, "call")
    /\ \E o \in Outcomes(app, threads[r].k) :
         LET k == threads[r].k IN
         IF o = "ok"
           THEN Goto(r, "store", threads[r].k, None,
                     <<Ev("call", k), Ev("return", k)>>)
           ELSE Goto(r, "except_error", threads[r].k, o,
                     <<Ev("call", k), Ev("raise", k)>>)
    /\ response' = NoResponse
    /\ UNCHANGED <<app, status_vars>>

\* process_status['results'][STAGE] = x_result
store_result(r) ==
    /\ At(r, "store")
    /\ results' = results \cup {Stages[threads[r].k]}
    /\ Goto(r, "progress", threads[r].k, None, <<Ev("store", threads[r].k)>>)
    /\ response' = NoResponse
    /\ UNCHANGED <<app, running, current_stage, progress, error>>

\* process_status['progress'] = 25 / 50 / 75 / 100
set_progress(r) ==
    /\ At(r, "progress")
    /\ progress' = 25 * threads[r].k
    /\ IF threads[r].k < Len(Stages)
         THEN Goto(r, "advance", threads[r].k + 1, None, <<>>)
         ELSE Goto(r, "finish", threads[r].k, None, <<>>)
    /\ response' = NoResponse
    /\ UNCHANGED <<app, running, current_stage, results, error>>

\* process_status['current_stage'] = 'EXTRACT' / 'REPORT' / 'REVIEW'
advance_stage(r) ==
    /\ At(r, "advance")
    /\ current_stage' = Stages[threads[r].k]
    /\ Goto(r, "call", threads[r].k, None, <<Ev("stage", threads[r].k)>>)
    /\ response' = NoResponse
    /\ UNCHANGED <<app, running, progress, results, error>>

\* process_status['running'] = False; return
finish(r) ==
    /\ At(r, "finish")
    /\ running' = FALSE
    /\ Stay(r, "done")
    /\ response' = NoResponse
    /\ UNCHANGED <<app, current_stage, progress, results, error>>

\* except Exception as e: process_status['error'] = str(e)
except_error(r) ==
    /\ At(r, "except_error")
    /\ error' = StrOf(threads[r].exc)
    /\ Stay(r, "except_running")
    /\ response' = NoResponse
    /\ UNCHANGED <<app, running, current_stage, progress, results>>

\* except_running that leaves the running flag set
except_running_keeps(r) ==
    /\ At(r, "except_running")
    /\ Stay(r, IF app = "web_backend" THEN "outer_error" ELSE "done")
    /\ response' = NoResponse
    /\ UNCHANGED <<app, status_vars>>

\* process_status['running'] = False, then web_backend re-raises into
\* run_in_background, unified_system returns
except_running(r) ==
    /\ At(r, "except_running")
    /\ running' = FALSE
    /\ Stay(r, IF app = "web_backend" THEN "outer_error" ELSE "done")
    /\ response' = NoResponse
    /\ UNCHANGED <<app, current_stage, progress, results, error>>

\* run_in_background: except Exception as e: process_status['error'] = str(e)
outer_error(r) ==
    /\ At(r, "outer_error")
    /\ error' = StrOf(threads[r].exc)
    /\ Stay(r, "outer_running")
    /\ response' = NoResponse
    /\ UNCHANGED <<app, running, current_stage, progress, results>>

\* run_in_background: process_status['running'] = False
outer_running(r) ==
    /\ At(r, "outer_running")
    /\ running' = FALSE
    /\ Stay(r, "done")
    /\ response' = NoResponse
    /\ UNCHANGED <<app, current_stage, progress, results, error>>

\* one step of the thread of run r
ThreadStep(r) ==
    \/ reset_running(r)
    \/ reset_stage(r)
    \/ reset_progress(r)
    \/ reset_results(r)
    \/ reset_error(r)
    \/ call_stage(r)
    \/ store_result(r)
    \/ set_progress(r)
    \/ advance_stage(r)
    \/ finish(r)
    \/ except_error(r)
    \/ except_running(r)
    \/ outer_error(r)
    \/ outer_running(r)

-----------------------------------------------------------------------------
(* Specifications *)

Next ==
    \/ get_status /\ UNCHANGED <<harvest_vars, function_vars>>
    \/ \E settings \in Settings : run_process(settings, MaxRuns) /\ UNCHANGED <<harvest_vars, function_vars>>
    \/ \E r \in 1..MaxRuns : ThreadStep(r) /\ UNCHANGED <<harvest_vars, function_vars>>

Spec == Init /\ [][Next]_vars

\* the operating system schedules every started thread again and again
LiveNext ==
    \/ get_status /\ UNCHANGED <<harvest_vars, function_vars>>
    \/ \E settings \in Settings : run_process(settings, LiveMaxRuns) /\ UNCHANGED <<harvest_vars, function_vars>>
    \/ \E r \in 1..LiveMaxRuns : ThreadStep(r) /\ UNCHANGED <<harvest_vars, function_vars>>

LiveSpec ==
    /\ Init
    /\ [][LiveNext]_vars
    /\ \A r \in 1..LiveMaxRuns : WF_vars(ThreadStep(r) /\ UNCHANGED <<harvest_vars, function_vars>>)

-----------------------------------------------------------------------------
(* Vocabulary of the properties *)

\* run r was accepted and process_with_settings / run_psai_sequence has not
\* yet left its try statement
PipelineAts ==
    {"reset_running", "reset_stage", "reset_progress", "reset_results",
     "reset_error", "call", "store", "progress", "advance", "finish",
     "except_error", "except_running"}

Active(r) == r \in DOMAIN threads /\ threads[r].at \in PipelineAts

\* run r has set the stage EXTRACT and not yet completed it
InExtract(r) ==
    /\ Active(r)
    /\ threads[r].k = 2
    /\ threads[r].at \in {"call", "store", "progress"}

\* the stage of the specification's PipelineRun, read off a status
\* dictionary s: the dictionary has no values idle, done, failed; a run that
\* is not running is idle before the first run, failed when an error is
\* recorded and done otherwise
PipelineStage(s) ==
    IF s.running THEN s.current_stage
    ELSE IF s.current_stage = None THEN "idle"
    ELSE IF s.error # None THEN "failed"
    ELSE "done"

\* the log entries of kind op
EventsOf(op) == {Ev(op, k) : k \in 1..Len(Stages)}

StageEvents(log) == SelectSeq(log, LAMBDA e : e \in EventsOf("stage"))

-----------------------------------------------------------------------------
(* Properties *)

\* C1: at most one pipeline run is active at any time, whatever the
\* interleaving of start requests, status queries and run threads.
C1_AtMostOneActive ==
    Cardinality({r \in DOMAIN threads : Active(r)}) <= 1

\* C2: while the active run is in the extract stage a start request is
\* rejected (the handler's acceptance test fails for every settings object)
\* and the handler changes no status field and starts no thread.
C2_RejectedInExtract ==
    /\ [](((\E r \in DOMAIN threads : InExtract(r)) /\ current_stage = Stages[2])
            => \A settings \in Settings : ~Accepts(settings))
    /\ [][((\E settings \in Settings : run_process(settings, MaxRuns))
            /\ (\E r \in DOMAIN threads : InExtract(r)))
           => UNCHANGED <<status_vars, threads>>]_vars

\* C3: the stages a run sets are HARVEST, EXTRACT, REPORT, REVIEW in that
\* order, none skipped or repeated, and a run sets the next stage only after
\* the function of the stage before has returned and its result was stored:
\* every step in which run r writes a stage writes the successor of the
\* stages r has written so far, into current_stage, and r's log then holds
\* the return and, after it, the store of the stage before.
C3_StagesInOrder ==
    [][\A r \in DOMAIN threads :
         LET log  == threads[r].log
             log2 == threads'[r].log
         IN /\ Len(log2) >= Len(log)
            /\ (current_stage' # current_stage /\ threads'[r].at # threads[r].at)
                  => (Len(log2) = Len(log) + 1 /\ log2[Len(log2)] \in EventsOf("stage"))
            /\ (Len(log2) > Len(log) /\ log2[Len(log2)] \in EventsOf("stage")) =>
                  LET n == Len(StageEvents(log)) IN
                  /\ n < Len(Stages)
                  /\ StageEvents(log) = [i \in 1..n |-> Ev("stage", i)]
                  /\ log2 = Append(log, Ev("stage", n + 1))
                  /\ current_stage' = Stages[n + 1]
                  /\ n > 0 =>
                       \E h \in 1..Len(log) : \E j \in 1..Len(log) :
                          /\ h < j
                          /\ log[h] = Ev("return", n)
                          /\ log[j] = Ev("store", n)
                          /\ \A i \in 1..Len(log) : log[i] = Ev("stage", n) => i < h]_vars

\* a run went through all four stages
C3_Witness ==
    \E r \in DOMAIN threads :
       /\ threads[r].at = "done"
       /\ threads[r].exc = None
       /\ Len(StageEvents(threads[r].log)) = Len(Stages)

\* C4: once a stage function of a run has raised, the run executes no later
\* stage, stores no result for the failing or a later stage, and writes
\* neither the progress nor the stage any more: the step in which stage k
\* raises finds neither a call nor a stored result of stage k or a later
\* one in the run's log, and every later step of the run leaves its log,
\* the stage, the progress and the results as they are.
C4_RunHalts ==
    [][\A r \in DOMAIN threads :
         /\ (threads[r].exc = None /\ threads'[r].exc # None) =>
               LET log == threads[r].log
                   k   == threads[r].k
               IN /\ threads'[r].log = log \o <<Ev("call", k), Ev("raise", k)>>
                  /\ threads'[r].k = k
                  /\ \A i \in 1..Len(log) : \A j \in k..Len(Stages) :
                       log[i] # Ev("call", j) /\ log[i] # Ev("store", j)
                  /\ UNCHANGED <<current_stage, progress, results>>
         /\ (threads[r].exc # None /\ threads'[r].at # threads[r].at) =>
               /\ threads'[r].exc # None
               /\ threads'[r].log = threads[r].log
               /\ UNCHANGED <<current_stage, progress, results>>]_vars

\* a run failed in its third stage and has ended, the two results stored
C4_Witness ==
    \E r \in DOMAIN threads :
       /\ threads[r].exc # None
       /\ threads[r].at = "done"
       /\ threads[r].k = 3
       /\ progress = 50
       /\ results = {Stages[1], Stages[2]}

\* C5: when the except clause of a failing run has run, the status shows
\* the stage failed with a non-empty error.
C5_FailureReported ==
    [][\A r \in DOMAIN threads :
         (threads[r].at = "except_running" /\ threads'[r].at # "except_running") =>
            /\ PipelineStage(Snapshot') = "failed"
            /\ error' # None
            /\ error' # ""]_vars

\* C6: when a run whose four stage functions all returned ends, the status
\* shows the stage done, progress 100, all four results, no error, not
\* running.
C6_SuccessReported ==
    [][\A r \in DOMAIN threads :
         (threads[r].at = "finish" /\ threads'[r].at = "done") =>
            /\ PipelineStage(Snapshot') = "done"
            /\ progress' = 100
            /\ results' = StageNames
            /\ error' = None
            /\ ~running']_vars

\* C7: in every reachable state progress is one of 0, 25, 50, 75, 100 and is
\* 25 times the number of stored stage results; while a run is active the
\* progress never decreases.
C7_ProgressCountsResults ==
    /\ [](progress \in {0, 25, 50, 75, 100})
    /\ [](progress = 25 * Cardinality(results))
    /\ [][(\E r \in DOMAIN threads :
             Active(r) /\ threads[r].at \notin {"reset_running", "reset_stage", "reset_progress"})
           => progress' >= progress]_vars

\* C8: a status response never shows the stage of a newly started run with
\* the progress, results or error of the run before, nor a stage whose
\* predecessor's result is missing: a response produced while a run, all
\* earlier runs having ended, has set its first stage and done nothing
\* further shows progress 0, no results and no error, and a response
\* showing a running later stage holds the result of the stage before.
C8_ConsistentSnapshot ==
    response.kind = "status" =>
      LET s == response.body IN
      /\ (\E r \in DOMAIN threads :
             /\ Active(r) /\ threads[r].log = <<Ev("stage", 1)>>
             /\ \A q \in DOMAIN threads : q # r => threads[q].at = "done") =>
            /\ s.progress = 0
            /\ s.results = {}
            /\ s.error = None
      /\ \A k \in 2..Len(Stages) :
            (s.running /\ s.current_stage = Stages[k]) => Stages[k-1] \in s.results

\* C9: a status query is possible in every reachable state and answers 200;
\* as long as no run was started it reports the stage idle, not running,
\* progress 0, no results and no error.
C9_StatusBeforeAnyRun ==
    /\ ENABLED get_status
    /\ response.kind = "status" => response.code = 200
    /\ (response.kind = "status" /\ threads = <<>>) =>
          /\ PipelineStage(response.body) = "idle"
          /\ response.body.current_stage = None
          /\ response.body.running = FALSE
          /\ response.body.progress = 0
          /\ response.body.results = {}
          /\ response.body.error = None

\* a status query answered before any run was started
C9_Witness == response.kind = "status" /\ threads = <<>>

\* C10: every accepted run ends, and when it ends the status shows the run
\* as not running; status queries stay possible throughout.
C10_RunsEnd ==
    /\ \A r \in 1..LiveMaxRuns :
         (r \in DOMAIN threads) ~>
            (r \in DOMAIN threads /\ threads[r].at = "done" /\ ~running)
    /\ [](ENABLED get_status)

\* a run whose stage raised has ended and the status shows it not running
C10_Witness ==
    \E r \in DOMAIN threads :
       threads[r].at = "done" /\ threads[r].exc # None /\ ~running

\* run r has set a stage as the current one and has not yet completed it: its
\* stage function executes in the thread's next step, or has returned and the
\* result or the progress of the stage is still to be written
InStage(r) ==
    /\ Active(r)
    /\ threads[r].at \in {"call", "store", "progress"}

\* C21: at most one pipeline stage executes in the process at any instant: a
\* run calls the function of a stage only after the function of its stage
\* before has returned; never are two runs in a stage at the same time; and
\* while a run is in a stage no other run takes a step, so that no other run
\* executes a stage function or writes the status.
C21_OneStageAtATime ==
    /\ [][\A r \in DOMAIN threads :
            (threads[r].at = "call" /\ threads'[r].at # "call" /\ threads[r].k > 1) =>
               \E i \in 1..Len(threads[r].log) :
                  threads[r].log[i] = Ev("return", threads[r].k - 1)]_vars
    /\ [](Cardinality({r \in DOMAIN threads : InStage(r)}) <= 1)
    /\ [][\A r \in DOMAIN threads : \A q \in DOMAIN threads :
            (InStage(r) /\ q # r) => threads'[q] = threads[q]]_vars

\* run r has ended: it has left process_with_settings / run_psai_sequence,
\* which has set running to False on its way out, after the fourth stage or
\* in its except clause
Ended(r) == r \in DOMAIN threads /\ ~Active(r)

\* C34: whenever every run that was started has ended, completed or failed,
\* a start request with settings is accepted; a run writes progress 0, no
\* results and no error, in this order, and only then calls its harvest
\* function; and a run that has ended writes no status field any more, so
\* that what it left behind is cleared by the next run and stays cleared.
C34_EndedRunLeavesNoTrace ==
    /\ []((threads # <<>> /\ \A r \in DOMAIN threads : Ended(r))
            => \A settings \in Settings \ {"empty"} : Accepts(settings))
    /\ [][\A r \in DOMAIN threads :
            /\ (threads[r].at = "reset_progress" /\ threads'[r].at # "reset_progress")
                  => (progress' = 0 /\ threads'[r].at = "reset_results")
            /\ (threads[r].at = "reset_results" /\ threads'[r].at # "reset_results")
                  => (results' = NoResults /\ threads'[r].at = "reset_error")
            /\ (threads[r].at = "reset_error" /\ threads'[r].at # "reset_error")
                  => (error' = None /\ threads'[r].at = "call" /\ threads'[r].k = 1)
            /\ (threads[r].at # "call" /\ threads'[r].at = "call" /\ threads'[r].k = 1)
                  => threads[r].at = "reset_error"]_vars
    /\ [][\A r \in DOMAIN threads :
            (Ended(r) /\ threads'[r] # threads[r]) => UNCHANGED status_vars]_vars

\* the stages whose result run r has stored
StoredBy(r) ==
    {Stages[k] : k \in {j \in 1..Len(Stages) :
                          \E i \in 1..Len(threads[r].log) : threads[r].log[i] = Ev("store", j)}}

\* C35: in every reachable state the stored results are those of the first
\* n stages for some n from 0 to 4, so that a result is stored only together
\* with the results of all stages before it; and while a run is past the
\* clearing of the results and is the latest run started, the stored
\* results are the ones this run has stored.
C35_ResultsArePrefix ==
    /\ \E n \in 0..Len(Stages) : results = {Stages[k] : k \in 1..n}
    /\ (/\ threads # <<>>
        /\ threads[Len(threads)].at \notin {"reset_running", "reset_stage",
                                            "reset_progress", "reset_results"})
          => results = StoredBy(Len(threads))

-----------------------------------------------------------------------------
(* Collector: clients/client1/psai_a/scripts/harvest.py *)

\* Bounds

\* number of entries one fetch of one source delivers
MaxEntries == 2

\* number of collector processes in one behaviour
MaxHarvests == 2

\* item.url: entry.link, https://reddit.com + permalink, https://youtube.com/watch?v= + videoId;
\* a feed entry may link to any of them
Urls == {"url1", "url2"}

\* HarvestedItem.__post_init__: hashlib.md5(self.url.encode()).hexdigest()
md5(url) == <<"md5", url>>

Hashes == {md5(url) : url \in Urls}

\* config['sources'], in the order harvest_all_sources visits them
Sources ==
    << [source_type |-> "rss", source |-> "feed"],
       [source_type |-> "reddit", source |-> "r/technology"],
       [source_type |-> "youtube", source |-> "channel"] >>

\* feed.entries[:10]
RssEntryLimit == 10

\* the sequences over S of length at most n
SeqsUpTo(S, n) == UNION {[1..m -> S] : m \in 0..n}

Range(seq) == {seq[i] : i \in 1..Len(seq)}

\* list(a_set): the members of S, each once, in some order
ListsOf(S) == {l \in [1..Cardinality(S) -> S] : Range(l) = S}

\* what a fetch of one source delivers: the entries processed, and whether an
\* exception ended the processing after them
Fetches == [entries : SeqsUpTo(Urls, MaxEntries), status : {"ok", "failed"}]

NoFetch == [entries |-> <<>>, status |-> "none"]

\* HarvestedItem(url=..., source=..., source_type=...)
HarvestedItem(url, src) ==
    [url |-> url, source |-> src.source, source_type |-> src.source_type, url_hash |-> md5(url)]

\* the path of the cache file holds no file, or <<the JSON document>>, or
\* <<the JSON document being written, the number of pieces of its text that
\* have reached the file>> while and after an unfinished json.dump
Missing == <<>>

\* the text json.dump writes for a document: the piece up to the opening
\* bracket of the list, one piece per fingerprint, the closing piece
Pieces(document) == Len(document.url_hashes) + 2

\* open(cache_file, 'w') has truncated the file and json.dump has got as far
\* as the first `written` pieces, not all of them
PartFile(document, written) == <<document, written>>

\* json.load(f) returns: the file holds the whole text of a JSON document
Loads(file) == Len(file) = 1

\* _load_duplicate_cache, without the file
load_duplicate_cache_fresh(file) == {}

\* _load_duplicate_cache: set(cache_data.get('url_hashes', [])), or set() on FileNotFoundError
load_duplicate_cache(file) ==
    IF file = Missing THEN {} ELSE Range(file[1].url_hashes)

\* _is_new_item that never looks into the cache
is_new_item_always(h, item) ==
    TRUE

\* _is_new_item
is_new_item(h, item) ==
    IF ~h.config.deduplication.enabled
      THEN TRUE
      ELSE item.url_hash \notin h.duplicate_cache

\* the if statement of the entry loop, without the add
accept_item_norecord(h, item) ==
    IF is_new_item(h, item)
      THEN [h EXCEPT !.harvested_items = Append(@, item)]
      ELSE h

\* if self._is_new_item(item): self.harvested_items.append(item); self.duplicate_cache.add(item.url_hash)
accept_item(h, item) ==
    IF is_new_item(h, item)
      THEN [h EXCEPT !.harvested_items = Append(@, item),
                     !.duplicate_cache = @ \cup {item.url_hash}]
      ELSE h

\* the entry loop of _harvest_rss, _harvest_reddit and _harvest_youtube
RECURSIVE process_entries(_, _, _)
process_entries(h, src, entries) ==
    IF entries = <<>>
      THEN h
      ELSE process_entries(accept_item(h, HarvestedItem(Head(entries), src)), src, Tail(entries))

\* the sources harvest_all_sources visits: reddit and youtube only with a client
Configured(h) ==
    SelectSeq(Sources, LAMBDA src : \/ src.source_type = "rss"
                                    \/ src.source_type = "reddit" /\ h.reddit
                                    \/ src.source_type = "youtube" /\ h.youtube)

Configs == [deduplication : [enabled : BOOLEAN]]

\* DataHarvester.__init__
NewHarvester(config, reddit, youtube) ==
    [config |-> config, harvested_items |-> <<>>, duplicate_cache |-> {},
     reddit |-> reddit, youtube |-> youtube]

\* n = number of harvest_all_sources calls so far; writable = the cache path
\* is writable during the run; fetch = what the last fetch delivered;
\* delivered = the URLs of the entries processed in the run; failed = the
\* sources whose try statement ended in its except clause
NewRun(n) ==
    [at |-> "constructed", n |-> n, todo |-> <<>>, writable |-> TRUE,
     fetch |-> NoFetch, delivered |-> {}, failed |-> {}]

NoOrchestrator ==
    /\ app = Absent
    /\ running = Absent
    /\ current_stage = Absent
    /\ progress = Absent
    /\ results = Absent
    /\ error = Absent
    /\ threads = Absent
    /\ response = Absent

\* a function that has not returned yet, and one that has returned a value
NotReturned == [done |-> FALSE, value |-> <<>>]

Returned(value) == [done |-> TRUE, value |-> value]

NoOthers ==
    /\ NoOrchestrator
    /\ NoHarvest
    /\ NoInvoker

HarvestInit ==
    /\ NoOrchestrator
    /\ \E config \in Configs, reddit \in BOOLEAN, youtube \in BOOLEAN :
         harvester = NewHarvester(config, reddit, youtube)
    /\ cache_file = Missing
    /\ harvest_run = NewRun(0)
    /\ accepted = {}
    /\ NoInvoker
    /\ NoFunction

HarvestAt(at) == harvest_run.at = at

\* harvest_all_sources whose _load_duplicate_cache lets the FileNotFoundError
\* of open leave harvest_all_sources
harvest_all_sources_nofile ==
    /\ HarvestAt("constructed")
    /\ harvest_run.n < MaxHarvests
    /\ IF Loads(cache_file)
         THEN /\ harvester' = [harvester EXCEPT !.duplicate_cache = load_duplicate_cache(cache_file)]
              /\ \E writable \in BOOLEAN :
                   harvest_run' = [harvest_run EXCEPT !.at = "harvest",
                                                      !.n = @ + 1,
                                                      !.todo = Configured(harvester),
                                                      !.writable = writable]
         ELSE /\ harvest_run' = [harvest_run EXCEPT !.at = "raised", !.n = @ + 1]
              /\ UNCHANGED harvester
    /\ UNCHANGED <<cache_file, accepted>>

\* harvest_all_sources up to the first source: _load_duplicate_cache, whose
\* except clause catches FileNotFoundError only, so that the JSONDecodeError
\* of json.load on a file without a whole document leaves harvest_all_sources
harvest_all_sources ==
    /\ HarvestAt("constructed")
    /\ harvest_run.n < MaxHarvests
    /\ IF cache_file = Missing \/ Loads(cache_file)
         THEN /\ harvester' = [harvester EXCEPT !.duplicate_cache = load_duplicate_cache(cache_file)]
              /\ \E writable \in BOOLEAN :
                   harvest_run' = [harvest_run EXCEPT !.at = "harvest",
                                                      !.n = @ + 1,
                                                      !.todo = Configured(harvester),
                                                      !.writable = writable]
         ELSE /\ harvest_run' = [harvest_run EXCEPT !.at = "raised", !.n = @ + 1]
              /\ UNCHANGED harvester
    /\ UNCHANGED <<cache_file, accepted>>

\* the entries a fetch hands to the entry loop
Entries(src, f) ==
    IF src.source_type = "rss"
      THEN SubSeq(f.entries, 1, IF Len(f.entries) < RssEntryLimit THEN Len(f.entries) ELSE RssEntryLimit)
      ELSE f.entries

\* one source of the given type, where an exception leaves harvest_all_sources
harvest_source_abort(source_type) ==
    /\ HarvestAt("harvest")
    /\ harvest_run.todo # <<>>
    /\ Head(harvest_run.todo).source_type = source_type
    /\ \E f \in Fetches :
         LET src == Head(harvest_run.todo)
             rest == Tail(harvest_run.todo)
         IN  /\ harvester' = process_entries(harvester, src, Entries(src, f))
             /\ harvest_run' = [harvest_run EXCEPT
                                  !.at = IF f.status = "failed" THEN "raised"
                                         ELSE IF rest = <<>> THEN "save" ELSE "harvest",
                                  !.todo = rest,
                                  !.fetch = f,
                                  !.delivered = @ \cup Range(Entries(src, f)),
                                  !.failed = IF f.status = "failed" THEN @ \cup {src.source} ELSE @]
    /\ UNCHANGED <<cache_file, accepted>>

\* one iteration of the source loop of _harvest_rss, _harvest_reddit or
\* _harvest_youtube: the try statement around the fetch and the entry loop
harvest_source(source_type) ==
    /\ HarvestAt("harvest")
    /\ harvest_run.todo # <<>>
    /\ Head(harvest_run.todo).source_type = source_type
    /\ \E f \in Fetches :
         LET src == Head(harvest_run.todo)
             rest == Tail(harvest_run.todo)
         IN  /\ harvester' = process_entries(harvester, src, Entries(src, f))
             /\ harvest_run' = [harvest_run EXCEPT
                                  !.at = IF rest = <<>> THEN "save" ELSE "harvest",
                                  !.todo = rest,
                                  !.fetch = f,
                                  !.delivered = @ \cup Range(Entries(src, f)),
                                  !.failed = IF f.status = "failed" THEN @ \cup {src.source} ELSE @]
    /\ UNCHANGED <<cache_file, accepted>>

harvest_rss == harvest_source("rss")

harvest_reddit == harvest_source("reddit")

harvest_youtube == harvest_source("youtube")

\* cache_data with only the first fingerprint
cache_data_first(last_updated, url_hashes) ==
    [last_updated |-> last_updated,
     url_hashes |-> IF url_hashes = <<>> THEN <<>> ELSE <<Head(url_hashes)>>]

\* cache_data = {'last_updated': ..., 'url_hashes': list(self.duplicate_cache)}
cache_data(last_updated, url_hashes) ==
    [last_updated |-> last_updated, url_hashes |-> url_hashes]

ItemHashes(items) == {items[i].url_hash : i \in 1..Len(items)}

\* _save_duplicate_cache that catches the exception of open
save_duplicate_cache_swallow ==
    /\ HarvestAt("save")
    /\ IF harvest_run.writable
         THEN \E l \in ListsOf(harvester.duplicate_cache) :
                cache_file' = <<cache_data(harvest_run.n, l)>>
         ELSE UNCHANGED cache_file
    /\ harvest_run' = [harvest_run EXCEPT !.at = "returned", !.fetch = NoFetch]
    /\ UNCHANGED <<harvester, accepted>>

\* _save_duplicate_cache and the return of harvest_all_sources; open raises
\* when the path is not writable
save_duplicate_cache ==
    /\ HarvestAt("save")
    /\ IF harvest_run.writable
         THEN /\ \E l \in ListsOf(harvester.duplicate_cache) :
                   cache_file' = <<cache_data(harvest_run.n, l)>>
              /\ harvest_run' = [harvest_run EXCEPT !.at = "returned", !.fetch = NoFetch]
         ELSE /\ harvest_run' = [harvest_run EXCEPT !.at = "raised", !.fetch = NoFetch]
              /\ UNCHANGED cache_file
    /\ UNCHANGED <<harvester, accepted>>

\* main() of the next process: DataHarvester() with the same configuration
\* file and the same environment
DataHarvester ==
    /\ harvest_run.at \in {"returned", "raised", "interrupted"}
    /\ harvest_run.n < MaxHarvests
    /\ harvester' = NewHarvester(harvester.config, harvester.reddit, harvester.youtube)
    /\ harvest_run' = NewRun(harvest_run.n)
    /\ accepted' = IF HarvestAt("returned")
                     THEN accepted \cup ItemHashes(harvester.harvested_items)
                     ELSE accepted
    /\ UNCHANGED cache_file

HarvestNext ==
    \/ harvest_all_sources /\ UNCHANGED <<orchestrator_vars, function_vars>>
    \/ harvest_rss /\ UNCHANGED <<orchestrator_vars, function_vars>>
    \/ harvest_reddit /\ UNCHANGED <<orchestrator_vars, function_vars>>
    \/ harvest_youtube /\ UNCHANGED <<orchestrator_vars, function_vars>>
    \/ save_duplicate_cache /\ UNCHANGED <<orchestrator_vars, function_vars>>
    \/ DataHarvester /\ UNCHANGED <<orchestrator_vars, function_vars>>

HarvestSpec == HarvestInit /\ [][HarvestNext]_vars

\* C38: a run that finds no cache file starts with an empty fingerprint set
\* and goes on to its sources; as long as the run lasts every fetched URL
\* has an accepted item, none being skipped, and the fingerprint set is the
\* set of their fingerprints; and the run, the cache path being writable,
\* ends with a cache file that holds the fingerprints of the accepted items
\* and no other.
C38_NoCacheFileStartsEmpty ==
    /\ [][(HarvestAt("constructed") /\ cache_file = Missing /\ harvest_run'.at # "constructed")
            => (harvester'.duplicate_cache = {} /\ harvest_run'.at = "harvest")]_vars
    /\ []((cache_file = Missing /\ harvest_run.at \in {"harvest", "save"})
            => /\ ItemHashes(harvester.harvested_items) = {md5(url) : url \in harvest_run.delivered}
               /\ harvester.duplicate_cache = ItemHashes(harvester.harvested_items))
    /\ [][(cache_file = Missing /\ HarvestAt("save") /\ harvest_run.writable
             /\ harvest_run'.at # "save")
            => /\ harvest_run'.at = "returned"
               /\ cache_file' # Missing
               /\ Loads(cache_file')
               /\ load_duplicate_cache(cache_file')
                     = ItemHashes(harvester.harvested_items)]_vars

\* the first run, which found no cache file, has accepted items of two URLs
\* and has written a cache file with their two fingerprints
C38_Witness ==
    /\ harvest_run.n = 1
    /\ HarvestAt("returned")
    /\ cache_file # Missing
    /\ Cardinality(ItemHashes(harvester.harvested_items)) = 2
    /\ load_duplicate_cache(cache_file) = ItemHashes(harvester.harvested_items)

\* _save_duplicate_cache statement by statement, for a process that can be
\* interrupted (a signal, KeyboardInterrupt, the end of the subprocess at the
\* timeout of the stage that started it)

\* with open(cache_file, 'w') as f: the file is truncated, or open raises
open_cache_file ==
    /\ HarvestAt("save")
    /\ IF harvest_run.writable
         THEN /\ \E l \in ListsOf(harvester.duplicate_cache) :
                   cache_file' = PartFile(cache_data(harvest_run.n, l), 0)
              /\ harvest_run' = [harvest_run EXCEPT !.at = "dump", !.fetch = NoFetch]
         ELSE /\ harvest_run' = [harvest_run EXCEPT !.at = "raised", !.fetch = NoFetch]
              /\ UNCHANGED cache_file
    /\ UNCHANGED <<harvester, accepted>>

\* json.dump(cache_data, f, indent=2), the end of the with statement and the
\* return of harvest_all_sources
json_dump ==
    /\ HarvestAt("dump")
    /\ cache_file' = <<cache_file[1]>>
    /\ harvest_run' = [harvest_run EXCEPT !.at = "returned"]
    /\ UNCHANGED <<harvester, accepted>>

\* the process ends between two statements of harvest_all_sources; inside the
\* with statement the file keeps the pieces written until then
interrupt ==
    /\ harvest_run.at \in {"harvest", "save", "dump"}
    /\ IF HarvestAt("dump")
         THEN \E written \in 0..(Pieces(cache_file[1]) - 1) :
                cache_file' = PartFile(cache_file[1], written)
         ELSE UNCHANGED cache_file
    /\ harvest_run' = [harvest_run EXCEPT !.at = "interrupted", !.fetch = NoFetch]
    /\ UNCHANGED <<harvester, accepted>>

InterruptNext ==
    \/ harvest_all_sources /\ UNCHANGED <<orchestrator_vars, function_vars>>
    \/ harvest_rss /\ UNCHANGED <<orchestrator_vars, function_vars>>
    \/ harvest_reddit /\ UNCHANGED <<orchestrator_vars, function_vars>>
    \/ harvest_youtube /\ UNCHANGED <<orchestrator_vars, function_vars>>
    \/ open_cache_file /\ UNCHANGED <<orchestrator_vars, function_vars>>
    \/ json_dump /\ UNCHANGED <<orchestrator_vars, function_vars>>
    \/ interrupt /\ UNCHANGED <<orchestrator_vars, function_vars>>
    \/ DataHarvester /\ UNCHANGED <<orchestrator_vars, function_vars>>

InterruptSpec == HarvestInit /\ [][InterruptNext]_vars

-----------------------------------------------------------------------------
(* Vocabulary of the collector's properties *)

\* seen(f) of the deduplication cache: the item with fingerprint f is not new
seen(h, f) == ~is_new_item(h, [url_hash |-> f])

\* record(f) of the deduplication cache: self.duplicate_cache.add(f)
record(h, f) == [h EXCEPT !.duplicate_cache = @ \cup {f}]

DedupEnabled == harvester.config.deduplication.enabled

\* f is recorded, is seen before and after it is recorded again, and the
\* repeated record changes neither the members nor the size of the set
RecordIsNoOp(h, f) ==
    /\ seen(h, f)
    /\ seen(record(h, f), f)
    /\ record(h, f).duplicate_cache = h.duplicate_cache
    /\ Cardinality(record(h, f).duplicate_cache) = Cardinality(h.duplicate_cache)

\* no two items of the list have the same fingerprint
UniqueFingerprints(items) ==
    \A i, j \in 1..Len(items) : items[i].url_hash = items[j].url_hash => i = j

ItemUrls(items) == {items[i].url : i \in 1..Len(items)}

-----------------------------------------------------------------------------
(* Properties of the collector *)

\* C11 as stated: every fingerprint recorded in the deduplication cache is
\* seen before and after it is recorded again, and recording it again leaves
\* the set unchanged.
C11_RecordedIsSeen ==
    \A f \in harvester.duplicate_cache : RecordIsNoOp(harvester, f)

\* C11 amended: when deduplication is enabled in the configuration, every
\* fingerprint recorded in the cache is seen before and after it is recorded
\* again, and recording it again leaves the set unchanged.
C11_RecordedIsSeenWhenEnabled ==
    DedupEnabled => \A f \in harvester.duplicate_cache : RecordIsNoOp(harvester, f)

C11_Witness ==
    /\ DedupEnabled
    /\ HarvestAt("harvest")
    /\ harvester.harvested_items # <<>>
    /\ \E f \in harvester.duplicate_cache : f = harvester.harvested_items[1].url_hash

\* C12 as stated: the list a harvest_all_sources call returns holds no item
\* whose fingerprint was accepted by an earlier call, the cache file not
\* being cleared in between.
C12_SecondRunReturnsNothingOld ==
    HarvestAt("returned") => ItemHashes(harvester.harvested_items) \cap accepted = {}

\* C12 amended: when deduplication is enabled, the list a harvest_all_sources
\* call returns holds no item whose fingerprint was accepted by an earlier call.
C12_SecondRunReturnsNothingOldWhenEnabled ==
    DedupEnabled /\ HarvestAt("returned")
        => ItemHashes(harvester.harvested_items) \cap accepted = {}

\* the second call has returned, and a source delivered to it a URL that the
\* first call accepted
C12_Witness ==
    /\ DedupEnabled
    /\ HarvestAt("returned")
    /\ harvest_run.n = 2
    /\ \E url \in harvest_run.delivered : md5(url) \in accepted

\* C13: the cache file that _save_duplicate_cache has written loads to exactly
\* the fingerprint set that was saved, whatever that set is.
C13_PersistLoadRoundTrip ==
    HarvestAt("returned") => load_duplicate_cache(cache_file) = harvester.duplicate_cache

\* a set of two fingerprints was written, the later accepted one first
C13_Witness ==
    /\ HarvestAt("returned")
    /\ Cardinality(harvester.duplicate_cache) = 2
    /\ Len(harvester.harvested_items) = 2
    /\ cache_file[1].url_hashes[1] = harvester.harvested_items[2].url_hash

\* C14: when the cache path is not writable, _save_duplicate_cache raises out
\* of harvest_all_sources instead of returning, and the harvester keeps its
\* fingerprint set and its items.
C14_PersistFailureReported ==
    [][HarvestAt("save") /\ ~harvest_run.writable
         => /\ harvest_run'.at = "raised"
            /\ harvester'.duplicate_cache = harvester.duplicate_cache
            /\ harvester'.harvested_items = harvester.harvested_items]_vars

C14_Witness ==
    /\ HarvestAt("raised")
    /\ ~harvest_run.writable
    /\ harvester.duplicate_cache # {}
    /\ harvester.harvested_items # <<>>

\* C15 as stated: no two items of harvested_items have the same fingerprint.
C15_UniqueFingerprints ==
    UniqueFingerprints(harvester.harvested_items)

\* C15 amended: when deduplication is enabled, no two items of
\* harvested_items have the same fingerprint, and the fingerprint of every
\* item is recorded in the cache.
C15_UniqueFingerprintsWhenEnabled ==
    DedupEnabled
        => /\ UniqueFingerprints(harvester.harvested_items)
           /\ ItemHashes(harvester.harvested_items) \subseteq harvester.duplicate_cache

\* the channel, visited last, has delivered the same URL twice and the feed
\* delivered it before; the list holds it once
C15_Witness ==
    /\ DedupEnabled
    /\ harvest_run.fetch.status = "ok"
    /\ Len(harvest_run.fetch.entries) = 2
    /\ harvest_run.fetch.entries[1] = harvest_run.fetch.entries[2]
    /\ Len(harvester.harvested_items) = 1
    /\ harvester.harvested_items[1].url = harvest_run.fetch.entries[1]
    /\ harvester.harvested_items[1].source_type = "rss"
    /\ harvester.youtube
    /\ harvest_run.todo = <<>>

\* C16: whichever sources fail, harvest_all_sources visits every configured
\* source, the entries processed are in the output unless the loaded cache
\* held them, and the only exception that leaves harvest_all_sources is the
\* one of an unwritable cache path; the cache file it returns with is written
\* in this call.
C16_FetchFailureSkipped ==
    /\ harvest_run.at \in {"save", "returned", "raised"} => harvest_run.todo = <<>>
    /\ harvest_run.at \in {"harvest", "save"}
         => \A url \in harvest_run.delivered :
              \/ url \in ItemUrls(harvester.harvested_items)
              \/ md5(url) \in load_duplicate_cache(cache_file)
    /\ HarvestAt("raised") => ~harvest_run.writable
    /\ HarvestAt("returned")
         => /\ cache_file # Missing
            /\ cache_file[1].last_updated = harvest_run.n

\* the first source failed, a later source delivered a new item, and the
\* call returned
C16_Witness ==
    /\ HarvestAt("returned")
    /\ harvest_run.failed = {Sources[1].source}
    /\ harvester.harvested_items # <<>>
    /\ harvester.harvested_items[1].source = Sources[3].source

\* C22: the cache file is read once, when harvest_all_sources starts, and
\* written once, after all sources were processed, and the write is atomic:
\* in every state, a state after an interruption included, the path holds no
\* file or a whole document, and every step that changes the file is taken
\* after the last source and leaves in it the whole new fingerprint set.
C22_AtomicRewrite ==
    /\ [](cache_file = Missing \/ Loads(cache_file))
    /\ [][(HarvestAt("constructed") /\ harvest_run'.at = "harvest")
            => harvester'.duplicate_cache = load_duplicate_cache(cache_file)]_vars
    /\ [][cache_file' # cache_file
            => /\ harvest_run.todo = <<>>
               /\ harvest_run.at \in {"save", "dump"}
               /\ Loads(cache_file')
               /\ load_duplicate_cache(cache_file') = harvester.duplicate_cache]_vars

-----------------------------------------------------------------------------
(* Item caps: the entry loops of _harvest_rss, _harvest_reddit and          *)
(* _harvest_youtube in clients/client1/psai_a/scripts/harvest.py            *)

\* number of entries a source has to offer
MaxAvailable == 11

\* the largest limit and max_results of a configuration
MaxCap == 2

\* seq[:n]
FirstN(seq, n) == SubSeq(seq, 1, IF Len(seq) < n THEN Len(seq) ELSE n)

\* self.config['sources']: the feed URLs, and the numbers the configuration
\* holds for the other source types
SourceConfigs ==
    [sources : [rss : {<<"feed">>},
                reddit : [subreddits : {<<"technology">>}, limit : 1..MaxCap],
                youtube : [channels : {<<"channel">>}, max_results : 1..MaxCap]]]

\* the numbers of a configuration
CapFields == {"limit", "max_results"}

CapValue(config, field) ==
    IF field = "limit" THEN config.sources.reddit.limit
                       ELSE config.sources.youtube.max_results

\* the entries the entry loop of a source type iterates over:
\* feed.entries[:10], subreddit.hot(limit=reddit_config['limit']),
\* search().list(maxResults=youtube_config['max_results']).execute()['items']
loop_entries(source_type, config, available) ==
    CASE source_type = "rss" -> FirstN(available, RssEntryLimit)
      [] source_type = "reddit" -> FirstN(available, config.sources.reddit.limit)
      [] source_type = "youtube" -> FirstN(available, config.sources.youtube.max_results)

SourceTypes == {Sources[i].source_type : i \in 1..Len(Sources)}

CapsInit ==
    /\ NoOthers
    /\ args \in [source_type : SourceTypes,
                 config : SourceConfigs,
                 available : {[i \in 1..n |-> i] : n \in 0..MaxAvailable}]
    /\ ret = NotReturned

CapsNext ==
    /\ ~ret.done
    /\ ret' = Returned(loop_entries(args.source_type, args.config, args.available))
    /\ UNCHANGED <<args, orchestrator_vars, harvest_vars, invoker>>

CapsSpec == CapsInit /\ [][CapsNext]_vars

\* C23: for every source type the configuration holds a number N such that
\* the items taken from a source of that type are its first N (all of them
\* when it has fewer), for the configuration of the call and for every
\* other one, so that a change of N changes the number of items taken from
\* a source that has more.
C23_ConfiguredItemCap ==
    ret.done =>
       \E field \in CapFields :
          /\ ret.value = FirstN(args.available, CapValue(args.config, field))
          /\ \A config \in SourceConfigs :
                loop_entries(args.source_type, config, args.available)
                    = FirstN(args.available, CapValue(config, field))

-----------------------------------------------------------------------------
(* The harvest stage: PSAIProcessor._harvest_data in web_backend.py starts  *)
(* main() of harvest.py, both in clients/client1/psai_a/scripts             *)

\* number of feed URLs, and of forum names, in the settings of a request
MaxSettingsUrls == 2

FeedUrls == {"https://a.example/rss", "https://b.example/rss"}

ForumUrls == {"r/technology", "programming"}

\* int(settings.get('harvestLimit', 25))
HarvestLimit == 25

\* the settings of an accepted request, as far as _harvest_data reads them
HarvestSettings ==
    [rssUrls : SeqsUpTo(FeedUrls, MaxSettingsUrls),
     redditUrls : SeqsUpTo(ForumUrls, MaxSettingsUrls),
     harvestLimit : {HarvestLimit},
     processingSpeed : {"fast", "normal"}]

\* url.replace('r/', '')
replace_r(url) == IF url = "r/technology" THEN "technology" ELSE url

\* config = {...} of _harvest_data
harvest_config(settings) ==
    [sources |->
        [rss |-> settings.rssUrls,
         reddit |-> [subreddits |-> [i \in 1..Len(settings.redditUrls) |->
                                        replace_r(settings.redditUrls[i])],
                     limit |-> settings.harvestLimit]],
     deduplication |-> [enabled |-> TRUE, cache_file |-> "data/url_cache.json"]]

\* _get_default_config of DataHarvester, its sources
default_config ==
    [sources |->
        [rss |-> <<"https://feeds.bbci.co.uk/news/technology/rss.xml",
                   "https://rss.cnn.com/rss/edition_technology.rss">>,
         reddit |-> [subreddits |-> <<"technology", "programming", "MachineLearning">>,
                     limit |-> 10]],
     deduplication |-> [enabled |-> TRUE, cache_file |-> "data/url_cache.json"]]

\* os.path.join(self.data_dir, "harvest_config.json")
ConfigFile == "data/harvest_config.json"

\* the default of the parameter config_path of DataHarvester.__init__
DefaultConfigPath == "config/harvest_config.json"

OutputFile == "data/harvest_timestamp.json"

\* cmd of _harvest_data, from the path of the script on
harvest_cmd(settings) ==
    <<"--config", ConfigFile, "--output", OutputFile>>
        \o (IF settings.processingSpeed = "fast" THEN <<"--test">> ELSE <<>>)

\* the defaults of the arguments the parser of main() knows
Namespace == [error |-> FALSE, test |-> FALSE, sheets |-> FALSE, source |-> "all", output |-> None]

\* parser.parse_args(): the parser knows the flags --test and --sheets and the
\* options --output and --source, which take a value; any other argument
\* ends the process (parser.error, exit status 2)
RECURSIVE parse_args(_, _)
parse_args(argv, namespace) ==
    IF argv = <<>>
      THEN namespace
    ELSE IF Head(argv) = "--test"
      THEN parse_args(Tail(argv), [namespace EXCEPT !.test = TRUE])
    ELSE IF Head(argv) = "--sheets"
      THEN parse_args(Tail(argv), [namespace EXCEPT !.sheets = TRUE])
    ELSE IF Head(argv) = "--output" /\ Len(argv) >= 2
      THEN parse_args(Tail(Tail(argv)), [namespace EXCEPT !.output = argv[2]])
    ELSE IF Head(argv) = "--source" /\ Len(argv) >= 2 /\ argv[2] \in {"rss", "reddit", "youtube", "all"}
      THEN parse_args(Tail(Tail(argv)), [namespace EXCEPT !.source = argv[2]])
    ELSE [namespace EXCEPT !.error = TRUE]

\* DataHarvester._load_config(config_path)
load_config(files, config_path) ==
    IF files[config_path] = Missing THEN default_config ELSE files[config_path][1]

\* main() of harvest.py: its exit status, the sources it has fetched and the
\* output file it has written
main(argv, files) ==
    LET namespace == parse_args(argv, Namespace)
        config == load_config(files, DefaultConfigPath)
    IN  IF namespace.error
          THEN [returncode |-> 2, rss |-> <<>>, subreddits |-> <<>>, output |-> None]
          ELSE [returncode |-> 0,
                rss |-> IF namespace.test THEN FirstN(config.sources.rss, 1)
                                          ELSE config.sources.rss,
                subreddits |-> config.sources.reddit.subreddits,
                output |-> namespace.output]

\* _harvest_data: the configuration file is written, the script is run, and
\* an exit status other than 0 raises Exception("Harvest failed: ...")
harvest_data(settings, files) ==
    LET written == [files EXCEPT ![ConfigFile] = <<harvest_config(settings)>>]
        result == main(harvest_cmd(settings), written)
    IN  [raised |-> result.returncode # 0,
         rss |-> result.rss,
         subreddits |-> result.subreddits,
         sources |-> Len(settings.rssUrls) + Len(settings.redditUrls)]

\* the files of the process before the stage: the path of the web backend's
\* configuration file and the default path of the collector hold no file or
\* a configuration
HarvestFiles ==
    [{ConfigFile, DefaultConfigPath} -> {Missing, <<default_config>>}]

HarvestStageInit ==
    /\ NoOthers
    /\ args \in [settings : HarvestSettings, files : HarvestFiles]
    /\ ret = NotReturned

HarvestStageNext ==
    /\ ~ret.done
    /\ ret' = Returned(harvest_data(args.settings, args.files))
    /\ UNCHANGED <<args, orchestrator_vars, harvest_vars, invoker>>

HarvestStageSpec == HarvestStageInit /\ [][HarvestStageNext]_vars

\* C24: the harvest stage of a run with the given settings returns, and the
\* collector it has run has fetched the feed URLs of the settings and the
\* forums of the settings, no other source.
C24_SettingsSourcesFetched ==
    ret.done =>
       /\ ~ret.value.raised
       /\ ret.value.rss = args.settings.rssUrls
       /\ ret.value.subreddits = harvest_config(args.settings).sources.reddit.subreddits

-----------------------------------------------------------------------------
(* Model calls: ContentExtractor._call_ollama in scripts/extract.py and    *)
(* ReportGenerator._call_ollama in clients/client1/psai_a/scripts/report.py *)

\* number of _call_ollama calls in one behaviour
MaxCalls == 2

Components == {"ContentExtractor", "ReportGenerator"}

Prompts == {"prompt1", "prompt2"}

\* self.config['models'] of _get_default_config; temperature in tenths
models(component) ==
    [primary |-> "llama3.1", fallback |-> "mistral", temperature |-> 7,
     max_tokens |-> IF component = "ContentExtractor" THEN 2000 ELSE 3000]

\* what self.ollama_client.generate(...)['response'] evaluates to: a text, or
\* the exception of the client or of the subscript
Generated ==
    [kind : {"response"}, value : {"", "text"}]
        \cup [kind : {"raise"}, value : {"ConnectionError", "ResponseError", "KeyError"}]

NoResult == [kind |-> "none", value |-> ""]

\* the arguments of one generate call and what it evaluated to
Generate(component, model, prompt, g) ==
    [model |-> model, prompt |-> prompt,
     options |-> [temperature |-> models(component).temperature,
                  num_predict |-> models(component).max_tokens],
     generated |-> g]

InvokerInit ==
    /\ NoOrchestrator
    /\ NoHarvest
    /\ NoFunction
    /\ \E component \in Components :
         invoker = [component |-> component, n |-> 0, at |-> "idle", prompt |-> "",
                    calls |-> <<>>, result |-> NoResult]

\* a caller enters _call_ollama
call_ollama ==
    /\ invoker.at \in {"idle", "returned", "raised"}
    /\ invoker.n < MaxCalls
    /\ \E prompt \in Prompts :
         invoker' = [invoker EXCEPT !.n = @ + 1, !.at = "primary", !.prompt = prompt,
                                    !.calls = <<>>, !.result = NoResult]
    /\ UNCHANGED <<args, ret>>

\* the outer try statement: generate with the primary model
generate_primary ==
    /\ invoker.at = "primary"
    /\ \E g \in Generated :
         LET call == Generate(invoker.component, models(invoker.component).primary,
                              invoker.prompt, g)
         IN  invoker' = IF g.kind = "response"
                          THEN [invoker EXCEPT !.at = "returned", !.result = g,
                                               !.calls = Append(@, call)]
                          ELSE [invoker EXCEPT !.at = "fallback", !.calls = Append(@, call)]
    /\ UNCHANGED <<args, ret>>

\* the inner try statement with raise e instead of raise
generate_fallback_first ==
    /\ invoker.at = "fallback"
    /\ \E g \in Generated :
         LET call == Generate(invoker.component, models(invoker.component).fallback,
                              invoker.prompt, g)
         IN  invoker' = IF g.kind = "response"
                          THEN [invoker EXCEPT !.at = "returned", !.result = g,
                                               !.calls = Append(@, call)]
                          ELSE [invoker EXCEPT !.at = "raised",
                                               !.result = invoker.calls[1].generated,
                                               !.calls = Append(@, call)]
    /\ UNCHANGED <<args, ret>>

\* the except clause of the outer try statement: generate with the fallback
\* model; the bare raise re-raises e2
generate_fallback ==
    /\ invoker.at = "fallback"
    /\ \E g \in Generated :
         LET call == Generate(invoker.component, models(invoker.component).fallback,
                              invoker.prompt, g)
         IN  invoker' = IF g.kind = "response"
                          THEN [invoker EXCEPT !.at = "returned", !.result = g,
                                               !.calls = Append(@, call)]
                          ELSE [invoker EXCEPT !.at = "raised", !.result = g,
                                               !.calls = Append(@, call)]
    /\ UNCHANGED <<args, ret>>

InvokerNext ==
    \/ call_ollama /\ UNCHANGED <<orchestrator_vars, harvest_vars>>
    \/ generate_primary /\ UNCHANGED <<orchestrator_vars, harvest_vars>>
    \/ generate_fallback /\ UNCHANGED <<orchestrator_vars, harvest_vars>>

InvokerSpec == InvokerInit /\ [][InvokerNext]_vars

\* C17: when _call_ollama has ended, the first generate call was to the
\* primary model; there is a second call if and only if the first raised,
\* it is the only other one and it is to the fallback model with the same
\* prompt and options; _call_ollama raises if and only if both calls raised,
\* and what it raises is the exception of the second call.
C17_FallbackIffPrimaryFails ==
    invoker.at \in {"returned", "raised"}
        => LET calls == invoker.calls
               m == models(invoker.component)
           IN  /\ Len(calls) \in {1, 2}
               /\ calls[1].model = m.primary
               /\ Len(calls) = 2 <=> calls[1].generated.kind = "raise"
               /\ Len(calls) = 2
                    => /\ calls[2].model = m.fallback
                       /\ calls[2].prompt = calls[1].prompt
                       /\ calls[2].options = calls[1].options
               /\ invoker.at = "raised"
                    <=> \A i \in 1..Len(calls) : calls[i].generated.kind = "raise"
               /\ invoker.at = "raised" => invoker.result = calls[2].generated
               /\ invoker.at = "returned" => invoker.result = calls[Len(calls)].generated

\* both calls raised, with different exceptions
C17_Witness ==
    /\ invoker.at = "raised"
    /\ Len(invoker.calls) = 2
    /\ invoker.calls[1].generated.value = "ConnectionError"
    /\ invoker.result.value = "ResponseError"

-----------------------------------------------------------------------------
(* Key-point extraction: ContentExtractor._extract_key_insights and        *)
(* _parse_insights_response in scripts/extract.py                          *)

\* number of characters of a model response, its filler not counted
MaxResponseLen == 4

\* the characters of a model response, by what the parser makes of them: the
\* brackets, the comma, an object without keys, an object with the keys
\* title, description and confidence, a number, anything else
Chars == {"[", "]", ",", "{}", "{tdc}", "1", "x"}

\* len(response) > 200, response[:200]
DescriptionLimit == 200

\* a text: chars, followed by filler more characters of the kind "x"
Texts(n) ==
    [chars : SeqsUpTo(Chars, n), filler : {0, DescriptionLimit - 2, DescriptionLimit}]

EmptyText == [chars |-> <<>>, filler |-> 0]

\* len(text)
TextLen(text) == Len(text.chars) + text.filler

\* text[:n]
Slice(text, n) ==
    IF Len(text.chars) >= n
      THEN [chars |-> SubSeq(text.chars, 1, n), filler |-> 0]
      ELSE [chars |-> text.chars,
            filler |-> IF text.filler < n - Len(text.chars)
                         THEN text.filler ELSE n - Len(text.chars)]

\* a description: a text, with '...' appended or not
Description(text, marker) == [text |-> text, marker |-> marker]

Positions(chars, c) == {i \in 1..Len(chars) : chars[i] = c}

Least(S) == CHOOSE i \in S : \A j \in S : i <= j

Greatest(S) == CHOOSE i \in S : \A j \in S : j <= i

\* re.search(r'\[.*\]', response, re.DOTALL).group(): from the first '[' to
\* the last ']' after it; <<>> when there is no match
BracketMatch(text) ==
    LET opens == Positions(text.chars, "[")
        closes == Positions(text.chars, "]")
    IN  IF opens = {} \/ closes = {} \/ Greatest(closes) < Least(opens)
          THEN <<>>
          ELSE SubSeq(text.chars, Least(opens), Greatest(closes))

\* the JSON grammar: a value is an object, a number or an array of values
\* separated by commas
RECURSIVE IsJsonValue(_), IsJsonElements(_)
IsJsonValue(chars) ==
    \/ chars \in {<<"{}">>, <<"{tdc}">>, <<"1">>}
    \/ /\ Len(chars) >= 2
       /\ chars[1] = "["
       /\ chars[Len(chars)] = "]"
       /\ \/ Len(chars) = 2
          \/ IsJsonElements(SubSeq(chars, 2, Len(chars) - 1))

IsJsonElements(chars) ==
    \/ IsJsonValue(chars)
    \/ \E k \in 2..(Len(chars) - 1) :
         /\ chars[k] = ","
         /\ IsJsonValue(SubSeq(chars, 1, k - 1))
         /\ IsJsonElements(SubSeq(chars, k + 1, Len(chars)))

\* the Python value of a JSON value: a dict with its keys and their values,
\* or something that has no get method
JsonValue(chars) ==
    IF chars = <<"{}">>
      THEN [isdict |-> TRUE, keys |-> {}, title |-> "",
            description |-> Description(EmptyText, FALSE), confidence |-> 0]
    ELSE IF chars = <<"{tdc}">>
      THEN [isdict |-> TRUE, keys |-> {"title", "description", "confidence"}, title |-> "t",
            description |-> Description([chars |-> <<"x">>, filler |-> 0], FALSE),
            confidence |-> 90]
    ELSE [isdict |-> FALSE, keys |-> {}, title |-> "",
          description |-> Description(EmptyText, FALSE), confidence |-> 0]

\* the list of the Python values of comma separated JSON values
RECURSIVE JsonElements(_)
JsonElements(chars) ==
    IF IsJsonValue(chars)
      THEN <<JsonValue(chars)>>
      ELSE LET k == CHOOSE k \in 2..(Len(chars) - 1) :
                      /\ chars[k] = ","
                      /\ IsJsonValue(SubSeq(chars, 1, k - 1))
                      /\ IsJsonElements(SubSeq(chars, k + 1, Len(chars)))
           IN  <<JsonValue(SubSeq(chars, 1, k - 1))>>
                   \o JsonElements(SubSeq(chars, k + 1, Len(chars)))

\* json.loads(json_match.group()) returns a list
Parses(text) ==
    /\ BracketMatch(text) # <<>>
    /\ IsJsonValue(BracketMatch(text))

\* the fallback of _parse_insights_response; confidence in hundredths
FallbackInsight(reply) ==
    [isdict |-> TRUE, keys |-> {"title", "description", "confidence"},
     title |-> "Extracted Insight",
     description |-> IF TextLen(reply) > DescriptionLimit
                       THEN Description(Slice(reply, DescriptionLimit), TRUE)
                       ELSE Description(reply, FALSE),
     confidence |-> 50]

\* _parse_insights_response
parse_insights_response(reply) ==
    IF Parses(reply)
      THEN LET match == BracketMatch(reply)
           IN  IF Len(match) = 2
                 THEN <<>>
                 ELSE JsonElements(SubSeq(match, 2, Len(match) - 1))
      ELSE <<FallbackInsight(reply)>>

\* the empty string '' where a fingerprint is expected
NoHash == <<>>

\* insight_data.get(key, default)
get(insight_data, key, default) ==
    IF key \in insight_data.keys THEN insight_data[key] ELSE default

\* ExtractedInsight(content_id=..., insight_type='key_point', ...)
KeyPoint(item, insight_data) ==
    [content_id |-> get(item, "url_hash", NoHash),
     insight_type |-> "key_point",
     title |-> get(insight_data, "title", ""),
     description |-> get(insight_data, "description", Description(EmptyText, FALSE)),
     confidence |-> get(insight_data, "confidence", 50),
     source_url |-> get(item, "url", "")]

\* _extract_key_insights from the return of _call_ollama on: get raises
\* AttributeError on an element that is not a dict, and the except clause
\* returns []
extract_key_insights(item, raised, reply) ==
    IF raised
      THEN <<>>
      ELSE LET insights_data == parse_insights_response(reply)
           IN  IF \E i \in 1..Len(insights_data) : ~insights_data[i].isdict
                 THEN <<>>
                 ELSE [i \in 1..Len(insights_data) |-> KeyPoint(item, insights_data[i])]

\* the harvested item of the call
AnItem == [keys |-> {"url", "url_hash"}, url |-> "url1", url_hash |-> md5("url1")]

KeyInsightsInit ==
    /\ NoOthers
    /\ args \in [item : {AnItem}, raised : {FALSE}, response : Texts(MaxResponseLen)]
                  \cup [item : {AnItem}, raised : {TRUE}, response : {EmptyText}]
    /\ ret = NotReturned

KeyInsightsNext ==
    /\ ~ret.done
    /\ ret' = Returned(extract_key_insights(args.item, args.raised, args.response))
    /\ UNCHANGED <<args, orchestrator_vars, harvest_vars, invoker>>

KeyInsightsSpec == KeyInsightsInit /\ [][KeyInsightsNext]_vars

\* C18 as stated: for a model response that is not empty the key-point
\* extraction returns at least one insight; when the response does not parse
\* it returns exactly one insight, with confidence 0.5 and as description the
\* response, cut to its first 200 characters and marked when it is longer.
C18_NeverEmpty ==
    ret.done /\ ~args.raised /\ TextLen(args.response) > 0
        => /\ ret.value # <<>>
           /\ ~Parses(args.response)
                => /\ Len(ret.value) = 1
                   /\ ret.value[1].confidence = 50
                   /\ ret.value[1].description.text = Slice(args.response, DescriptionLimit)
                   /\ ret.value[1].description.marker = (TextLen(args.response) > DescriptionLimit)

-----------------------------------------------------------------------------
(* Extraction of one item: ContentExtractor._extract_item_insights,         *)
(* _analyze_sentiment, _parse_sentiment_response and _extract_citations in  *)
(* scripts/extract.py                                                       *)

\* number of characters of a model response that is to hold a JSON object
MaxReplyLen == 3

\* number of URLs in the content of an item
MaxContentUrls == 4

\* urls[:3]
CitationLimit == 3

\* the characters of such a response, by what the parser makes of them: the
\* braces, the text of one or more members "key": value, anything else
ObjectChars == {"{", "}", "m", "x"}

\* re.search(r'\{.*\}', response, re.DOTALL).group(): from the first '{' to
\* the last '}' after it; <<>> when there is no match
BraceMatch(chars) ==
    LET opens == Positions(chars, "{")
        closes == Positions(chars, "}")
    IN  IF opens = {} \/ closes = {} \/ Greatest(closes) < Least(opens)
          THEN <<>>
          ELSE SubSeq(chars, Least(opens), Greatest(closes))

\* json.loads returns: the text is an object without or with members
IsJsonObject(chars) == chars \in {<<"{", "}">>, <<"{", "m", "}">>}

\* the dict json.loads returns for the text of an object: the members give
\* a description and a confidence (in hundredths), no other key
JsonObject(chars) ==
    [isdict |-> TRUE,
     keys |-> IF chars = <<"{", "}">> THEN {} ELSE {"description", "confidence"},
     description |-> Description([chars |-> <<"x">>, filler |-> 0], FALSE),
     confidence |-> 80]

\* _parse_sentiment_response: <<the dict>>, or None as <<>>
parse_sentiment_response(reply) ==
    IF BraceMatch(reply) # <<>> /\ IsJsonObject(BraceMatch(reply))
      THEN <<JsonObject(BraceMatch(reply))>>
      ELSE <<>>

\* if sentiment_data: a dict without keys is falsy
Truthy(parsed) == parsed # <<>> /\ parsed[1].keys # {}

\* ExtractedInsight(content_id=..., insight_type='sentiment', ...)
Sentiment(item, sentiment_data) ==
    [content_id |-> get(item, "url_hash", NoHash),
     insight_type |-> "sentiment",
     title |-> IF "sentiment" \in sentiment_data.keys
                 THEN "Sentiment: positive" ELSE "Sentiment: neutral",
     description |-> get(sentiment_data, "description", Description(EmptyText, FALSE)),
     confidence |-> get(sentiment_data, "confidence", 50),
     source_url |-> get(item, "url", "")]

\* _analyze_sentiment that makes up a neutral insight for a response it
\* cannot parse
analyze_sentiment_synthesized(item, raised, reply) ==
    IF raised
      THEN <<>>
      ELSE IF Truthy(parse_sentiment_response(reply))
             THEN <<Sentiment(item, parse_sentiment_response(reply)[1])>>
             ELSE <<Sentiment(item, JsonObject(<<"{", "}">>))>>

\* _analyze_sentiment from the return of _call_ollama on: <<the insight>>,
\* or None as <<>>
analyze_sentiment(item, raised, reply) ==
    IF raised
      THEN <<>>
      ELSE IF Truthy(parse_sentiment_response(reply))
             THEN <<Sentiment(item, parse_sentiment_response(reply)[1])>>
             ELSE <<>>

\* ExtractedInsight(content_id=..., insight_type='citation', ...)
Citation(item, url) ==
    [content_id |-> get(item, "url_hash", NoHash),
     insight_type |-> "citation",
     title |-> "Reference: url",
     description |-> Description([chars |-> <<"x">>, filler |-> 0], FALSE),
     confidence |-> 90,
     source_url |-> get(item, "url", ""),
     citation_url |-> url]

\* _extract_citations that takes every URL of the content
extract_citations_all(item, urls) ==
    [i \in 1..Len(urls) |-> Citation(item, urls[i])]

\* _extract_citations, for the URLs re.findall finds in the content
extract_citations(item, urls) ==
    [i \in 1..Len(FirstN(urls, CitationLimit)) |-> Citation(item, urls[i])]

\* what happens while one item is processed: an exception leaves
\* _extract_item_insights (_load_prompt is called outside the try statements
\* and catches FileNotFoundError only; _prepare_content fails on a content
\* that is not a string) or not; _call_ollama raises, both models having
\* failed, or returns a text, for the key points and for the sentiment; the
\* URLs in the content
ItemRuns(key_replies, sentiment_replies, urls) ==
    [escapes : BOOLEAN,
     key : [raised : {TRUE}, reply : {EmptyText}] \cup [raised : {FALSE}, reply : key_replies],
     sentiment : [raised : {TRUE}, reply : {<<>>}]
                     \cup [raised : {FALSE}, reply : sentiment_replies],
     urls : urls]

\* _extract_item_insights when no exception leaves it
extract_item_insights(item, run) ==
    extract_key_insights(item, run.key.raised, run.key.reply)
        \o analyze_sentiment(item, run.sentiment.raised, run.sentiment.reply)
        \o extract_citations(item, run.urls)

\* model responses for the key points: one that does not parse, an array of
\* one insight, an empty array
KeyReplies ==
    {[chars |-> <<"x">>, filler |-> 0],
     [chars |-> <<"[", "{tdc}", "]">>, filler |-> 0],
     [chars |-> <<"[", "]">>, filler |-> 0]}

\* the URLs of a content with n of them
ContentUrls(n) == [i \in 1..n |-> i]

ItemInsightsInit ==
    /\ NoOthers
    /\ args \in [item : {AnItem},
                 run : ItemRuns(KeyReplies, SeqsUpTo(ObjectChars, MaxReplyLen),
                                {ContentUrls(n) : n \in 0..MaxContentUrls})]
    /\ ~args.run.escapes
    /\ ret = NotReturned

ItemInsightsNext ==
    /\ ~ret.done
    /\ ret' = Returned(extract_item_insights(args.item, args.run))
    /\ UNCHANGED <<args, orchestrator_vars, harvest_vars, invoker>>

ItemInsightsSpec == ItemInsightsInit /\ [][ItemInsightsNext]_vars

OfType(insights, type) == SelectSeq(insights, LAMBDA insight : insight.insight_type = type)

\* C30: an item yields at most one sentiment insight, and none when the
\* sentiment response holds no text from a '{' to a '}' that is a JSON
\* object; the key-point and the citation insights of the item are then the
\* ones its key-point response and its content give, as for any other
\* sentiment response.
C30_UnparsableSentimentDropped ==
    ret.done =>
       /\ Len(OfType(ret.value, "sentiment")) <= 1
       /\ (~args.run.sentiment.raised /\ parse_sentiment_response(args.run.sentiment.reply) = <<>>)
             => /\ OfType(ret.value, "sentiment") = <<>>
                /\ OfType(ret.value, "key_point")
                      = extract_key_insights(args.item, args.run.key.raised, args.run.key.reply)
                /\ OfType(ret.value, "citation") = extract_citations(args.item, args.run.urls)

\* a sentiment response of three characters that has a '{' before a '}' and
\* is no JSON object, such as "{x}" or "{}}": the item has its key point and
\* its citations and no sentiment
C30_Witness ==
    /\ ret.done
    /\ ~args.run.sentiment.raised
    /\ Len(args.run.sentiment.reply) = MaxReplyLen
    /\ BraceMatch(args.run.sentiment.reply) # <<>>
    /\ parse_sentiment_response(args.run.sentiment.reply) = <<>>
    /\ Len(OfType(ret.value, "key_point")) = 1
    /\ Len(OfType(ret.value, "citation")) = CitationLimit
    /\ OfType(ret.value, "sentiment") = <<>>

-----------------------------------------------------------------------------
(* Citations of one item: ContentExtractor._extract_citations on the        *)
(* content _prepare_content has made of the item                            *)

\* number of pieces of the content of an item
MaxContentPieces == 4

\* the content as the sequence of its pieces: a piece is a stretch of text
\* that url_pattern matches, or one that it does not
ContentPieces == {"http://a", "https://b", "text"}

\* re.findall(url_pattern, content): the matches from left to right
findall(content) ==
    SelectSeq(content, LAMBDA piece : piece \in {"http://a", "https://b"})

\* what the models do for the item: both fail, for the key points and for
\* the sentiment, or return a text
CitationRuns ==
    ItemRuns(KeyReplies, {<<"x">>, <<"{", "m", "}">>}, {<<>>})

CitationsInit ==
    /\ NoOthers
    /\ args \in [item : {AnItem},
                 content : SeqsUpTo(ContentPieces, MaxContentPieces),
                 run : CitationRuns]
    /\ ~args.run.escapes
    /\ ret = NotReturned

\* _extract_item_insights of the item with this content
CitationsNext ==
    /\ ~ret.done
    /\ ret' = Returned(extract_item_insights(
                           args.item, [args.run EXCEPT !.urls = findall(args.content)]))
    /\ UNCHANGED <<args, orchestrator_vars, harvest_vars, invoker>>

CitationsSpec == CitationsInit /\ [][CitationsNext]_vars

\* C31: the citation insights of an item are as many as the URLs of its
\* content, and 3 when there are more; the i-th one is of type citation,
\* has confidence 0.9 and refers to the i-th URL of the content from the
\* left; this is so whether the models have returned a text or both have
\* failed, for the key points and for the sentiment.
C31_CitationsFirstThreeUrls ==
    ret.done =>
       LET citations == OfType(ret.value, "citation")
           urls == SelectSeq(args.content, LAMBDA piece : piece # "text")
       IN  /\ Len(citations) <= 3
           /\ Len(citations) = (IF Len(urls) < 3 THEN Len(urls) ELSE 3)
           /\ \A i \in 1..Len(citations) :
                 /\ citations[i].citation_url = urls[i]
                 /\ citations[i].confidence = 90
                 /\ citations[i].insight_type = "citation"
           /\ \A i \in 1..Len(ret.value) :
                 ("citation_url" \in DOMAIN ret.value[i]) => ret.value[i].insight_type = "citation"

\* a content with four URLs and both models failing: three citations and no
\* other insight but the fallback ones
C31_Witness ==
    /\ ret.done
    /\ Len(findall(args.content)) = 4
    /\ args.run.key.raised
    /\ args.run.sentiment.raised
    /\ Len(OfType(ret.value, "citation")) = 3
    /\ OfType(ret.value, "citation")[3].citation_url = args.content[3]

-----------------------------------------------------------------------------
(* Extraction of a batch: ContentExtractor.extract_insights_from_harvest in *)
(* scripts/extract.py                                                       *)

\* number of items of a batch
MaxItems == 2

\* asdict(item) of a harvested item, as json.load returns it from the harvest file
asdict(item) ==
    [keys |-> {"url", "url_hash", "source", "source_type"},
     url |-> item.url, url_hash |-> item.url_hash,
     source |-> item.source, source_type |-> item.source_type]

\* the for loop of extract_insights_from_harvest without its try statement:
\* the first exception ends the loop
RECURSIVE extract_insights_from_harvest_abort(_, _)
extract_insights_from_harvest_abort(batch, extracted_insights) ==
    IF batch = <<>> \/ Head(batch).run.escapes
      THEN extracted_insights
      ELSE extract_insights_from_harvest_abort(
               Tail(batch),
               extracted_insights \o extract_item_insights(Head(batch).item, Head(batch).run))

\* the for loop of extract_insights_from_harvest over the items and what
\* happens while each is processed: self.extracted_insights.extend(insights),
\* or the except clause, which logs
RECURSIVE extract_insights_from_harvest(_, _)
extract_insights_from_harvest(batch, extracted_insights) ==
    IF batch = <<>>
      THEN extracted_insights
      ELSE extract_insights_from_harvest(
               Tail(batch),
               IF Head(batch).run.escapes
                 THEN extracted_insights
                 ELSE extracted_insights
                          \o extract_item_insights(Head(batch).item, Head(batch).run))

\* the items of a batch: harvested from a feed
BatchItems == {asdict(HarvestedItem(url, Sources[1])) : url \in Urls}

\* what happens while an item of a batch is processed: one response each
\* that parses, one URL in the content
BatchRuns ==
    ItemRuns({[chars |-> <<"[", "{tdc}", "]">>, filler |-> 0]}, {<<"{", "m", "}">>},
             {ContentUrls(1)})

BatchInit ==
    /\ NoOthers
    /\ args \in SeqsUpTo([item : BatchItems, run : BatchRuns], MaxItems)
    /\ ret = NotReturned

BatchNext ==
    /\ ~ret.done
    /\ ret' = Returned(extract_insights_from_harvest(args, <<>>))
    /\ UNCHANGED <<args, orchestrator_vars, harvest_vars, invoker>>

BatchSpec == BatchInit /\ [][BatchNext]_vars

\* seq is the beginning of whole
IsPrefix(seq, whole) ==
    Len(seq) <= Len(whole) /\ SubSeq(whole, 1, Len(seq)) = seq

\* part occurs in whole, its elements next to each other
Occurs(part, whole) ==
    \E at \in 0..(Len(whole) - Len(part)) : SubSeq(whole, at + 1, at + Len(part)) = part

\* C25: whatever items of a batch fail, extraction of the batch returns;
\* the insights of every item whose processing no exception has left are in
\* the result, those of an item for which both models failed included, and
\* the result begins with the insights collected from the items before
\* any item of the batch.
C25_ItemFailureAbsorbed ==
    ret.done =>
       /\ \A i \in 1..Len(args) :
             ~args[i].run.escapes
                => Occurs(extract_item_insights(args[i].item, args[i].run), ret.value)
       /\ \A n \in 0..Len(args) :
             IsPrefix(extract_insights_from_harvest(SubSeq(args, 1, n), <<>>), ret.value)

\* an exception has left the processing of the first item, and for the second
\* both models have failed in both calls: the result is the citation of the
\* second item
C25_Witness ==
    /\ ret.done
    /\ Len(args) = 2
    /\ args[1].run.escapes
    /\ ~args[2].run.escapes
    /\ args[2].run.key.raised
    /\ args[2].run.sentiment.raised
    /\ ret.value = extract_citations(args[2].item, args[2].run.urls)
    /\ Len(ret.value) = 1

-----------------------------------------------------------------------------
(* From the collector to the extractor: main() of harvest.py writes the     *)
(* harvest file, main() of scripts/extract.py reads it                      *)

\* items[:3] of a test run
TestItems == 3

\* no harvest file was written yet
NoFile == [n |-> 0, items |-> <<>>]

\* save_to_json that writes the items without their fingerprint
save_to_json_nohash ==
    /\ HarvestAt("returned")
    /\ args.n # harvest_run.n
    /\ args' = [n |-> harvest_run.n,
                items |-> [i \in 1..Len(harvester.harvested_items) |->
                              [asdict(harvester.harvested_items[i])
                                  EXCEPT !.keys = @ \ {"url_hash"}]]]
    /\ ret' = NotReturned
    /\ UNCHANGED <<harvest_vars, orchestrator_vars, invoker>>

\* main() of harvest.py after harvest_all_sources has returned:
\* save_to_json writes 'items': [asdict(item) for item in self.harvested_items]
save_to_json ==
    /\ HarvestAt("returned")
    /\ args.n # harvest_run.n
    /\ args' = [n |-> harvest_run.n,
                items |-> [i \in 1..Len(harvester.harvested_items) |->
                              asdict(harvester.harvested_items[i])]]
    /\ ret' = NotReturned
    /\ UNCHANGED <<harvest_vars, orchestrator_vars, invoker>>

\* main() of extract.py on the harvest file: harvest_data.get('items', []),
\* cut to three items with --test, then extract_insights_from_harvest of a
\* new ContentExtractor; the same happens while each item is processed
extract_main ==
    /\ args # NoFile
    /\ ~ret.done
    /\ \E test \in BOOLEAN, run \in BatchRuns :
         LET items == IF test THEN FirstN(args.items, TestItems) ELSE args.items
         IN  ret' = Returned(extract_insights_from_harvest(
                                 [i \in 1..Len(items) |-> [item |-> items[i], run |-> run]],
                                 <<>>))
    /\ UNCHANGED <<args, harvest_vars, orchestrator_vars, invoker>>

\* the next run of the pipeline starts: a new collector process, which will
\* write a harvest file of its own
next_run ==
    /\ DataHarvester
    /\ args' = NoFile
    /\ ret' = NotReturned
    /\ UNCHANGED <<orchestrator_vars, invoker>>

\* the collector of the pipeline runs without a video client (_setup_youtube
\* has set self.youtube to None), so harvest_all_sources skips the videos
PipelineInit ==
    /\ NoOrchestrator
    /\ NoInvoker
    /\ \E config \in Configs, reddit \in BOOLEAN :
         harvester = NewHarvester(config, reddit, FALSE)
    /\ cache_file = Missing
    /\ harvest_run = NewRun(0)
    /\ accepted = {}
    /\ args = NoFile
    /\ ret = NotReturned

PipelineNext ==
    \/ harvest_all_sources /\ UNCHANGED <<orchestrator_vars, function_vars>>
    \/ harvest_rss /\ UNCHANGED <<orchestrator_vars, function_vars>>
    \/ harvest_reddit /\ UNCHANGED <<orchestrator_vars, function_vars>>
    \/ save_duplicate_cache /\ UNCHANGED <<orchestrator_vars, function_vars>>
    \/ save_to_json
    \/ extract_main
    \/ next_run

PipelineSpec == PipelineInit /\ [][PipelineNext]_vars

\* C26: every insight the extractor has produced from a harvest file, of
\* whatever type, carries as content_id the fingerprint of an item of that
\* file, the item whose URL it carries, and that fingerprint is in the cache
\* file of the collector and belongs to an item the collector has accepted
\* in the run that wrote the file; no content_id is empty.
C26_ContentIdIsFingerprint ==
    ret.done =>
       \A k \in 1..Len(ret.value) :
          LET insight == ret.value[k] IN
          /\ insight.content_id # NoHash
          /\ \E i \in 1..Len(args.items) :
                /\ args.items[i].url = insight.source_url
                /\ args.items[i].url_hash = insight.content_id
                /\ md5(args.items[i].url) = insight.content_id
          /\ insight.content_id \in load_duplicate_cache(cache_file)
          /\ insight.content_id \in ItemHashes(harvester.harvested_items)

\* a second run of the collector has accepted an item, the first run having
\* recorded another, and the extractor has produced a key point, a sentiment
\* and a citation for it
C26_Witness ==
    /\ ret.done
    /\ harvest_run.n = 2
    /\ Len(args.items) = 1
    /\ Cardinality(load_duplicate_cache(cache_file)) = 2
    /\ {ret.value[k].insight_type : k \in 1..Len(ret.value)} = {"key_point", "sentiment", "citation"}

-----------------------------------------------------------------------------
(* The collector process from its start to its end: main() of harvest.py,   *)
(* which calls harvest_all_sources and then save_to_json, and a process     *)
(* that is stopped on the way                                               *)

\* the harvest outputs written so far, each under a name of its own
\* (data/harvest_{timestamp}.json): none
NoOutputs == <<>>

\* the fingerprints of the items in the harvest outputs
Delivered(outputs) ==
    UNION {ItemHashes(outputs[i].items) : i \in 1..Len(outputs)}

\* the process of this run has written its harvest output
Saved == \E i \in 1..Len(args) : args[i].n = harvest_run.n

\* main() after harvest_all_sources has returned: harvester.save_to_json(),
\* which writes 'items': [asdict(item) for item in self.harvested_items]
\* into a new file
main_save_to_json ==
    /\ HarvestAt("returned")
    /\ ~Saved
    /\ args' = Append(args, [n |-> harvest_run.n,
                             items |-> [i \in 1..Len(harvester.harvested_items) |->
                                           asdict(harvester.harvested_items[i])]])
    /\ UNCHANGED <<ret, harvest_vars, orchestrator_vars, invoker>>

\* the process is stopped between two statements of main(): a signal, a
\* crash, the end of the subprocess at the timeout of the stage that
\* started it
stop ==
    /\ \/ harvest_run.at \in {"harvest", "save"}
       \/ HarvestAt("returned") /\ ~Saved
    /\ harvest_run' = [harvest_run EXCEPT !.at = "interrupted", !.fetch = NoFetch]
    /\ UNCHANGED <<harvester, cache_file, accepted, function_vars, orchestrator_vars>>

\* the process has ended: main() has returned, an exception has left it,
\* or it was stopped
Stopped ==
    \/ HarvestAt("returned") /\ Saved
    \/ harvest_run.at \in {"raised", "interrupted"}

StopInit ==
    /\ NoOrchestrator
    /\ NoInvoker
    /\ \E config \in Configs, reddit \in BOOLEAN :
         harvester = NewHarvester(config, reddit, FALSE)
    /\ cache_file = Missing
    /\ harvest_run = NewRun(0)
    /\ accepted = {}
    /\ args = NoOutputs
    /\ ret = NotReturned

StopNext ==
    \/ harvest_all_sources /\ UNCHANGED <<orchestrator_vars, function_vars>>
    \/ harvest_rss /\ UNCHANGED <<orchestrator_vars, function_vars>>
    \/ harvest_reddit /\ UNCHANGED <<orchestrator_vars, function_vars>>
    \/ save_duplicate_cache /\ UNCHANGED <<orchestrator_vars, function_vars>>
    \/ main_save_to_json
    \/ stop
    \/ Stopped /\ DataHarvester /\ UNCHANGED <<orchestrator_vars, function_vars>>

StopSpec == StopInit /\ [][StopNext]_vars

\* C36: whenever the collector process has ended, main() having returned,
\* an exception having left it, or stopped between two statements, every
\* fingerprint in the cache file is the fingerprint of an item in one of
\* the harvest outputs written so far.
C36_CachedMeansDelivered ==
    Stopped => load_duplicate_cache(cache_file) \subseteq Delivered(args)

-----------------------------------------------------------------------------
(* Trend aggregation: ContentExtractor.analyze_trends, _group_insights_by_topic *)
(* and _analyze_topic_trend in scripts/extract.py                          *)

\* number of insights handed to analyze_trends
MaxInsights == 3

\* if len(topic_insights) >= 2
MinTopicInsights == 2

\* topic_keywords, in the order of the dictionary
TopicKeywords ==
    << [topic |-> "AI/ML",
        keywords |-> {"artificial intelligence", "machine learning", "AI", "ML", "neural network"}],
       [topic |-> "Technology",
        keywords |-> {"technology", "tech", "software", "hardware", "digital"}],
       [topic |-> "Business",
        keywords |-> {"business", "startup", "company", "market", "investment"}],
       [topic |-> "Security",
        keywords |-> {"security", "privacy", "cybersecurity", "hack", "breach"}],
       [topic |-> "Innovation",
        keywords |-> {"innovation", "breakthrough", "discovery", "research", "development"}] >>

Topics == {TopicKeywords[i].topic : i \in 1..Len(TopicKeywords)}

\* the titles and the descriptions of the insights
Titles == {"AI", "Machine Learning", "security", "weather"}

Descriptions == {"Security", "weather"}

\* str.lower()
lower(str) ==
    CASE str = "AI" -> "ai"
      [] str = "Machine Learning" -> "machine learning"
      [] str = "Security" -> "security"
      [] OTHER -> str

\* keyword in content_lower, for content_lower = (title + ' ' + description).lower():
\* none of the keywords lies across the blank between these titles and descriptions
KeywordIn(keyword, insight) ==
    keyword \in {lower(insight.title), lower(insight.description)}

\* the topic _group_insights_by_topic puts the insight under: the first one of
\* the dictionary with a keyword in the content; "" when there is none
TopicOf(insight) ==
    LET hits == {i \in 1..Len(TopicKeywords) :
                   \E keyword \in TopicKeywords[i].keywords : KeywordIn(keyword, insight)}
    IN  IF hits = {} THEN "" ELSE TopicKeywords[Least(hits)].topic

\* the keys of the dictionary _group_insights_by_topic returns, in the order
\* of their insertion
RECURSIVE GroupedTopics(_)
GroupedTopics(insights) ==
    IF insights = <<>>
      THEN <<>>
      ELSE LET before == GroupedTopics(SubSeq(insights, 1, Len(insights) - 1))
               topic == TopicOf(insights[Len(insights)])
           IN  IF topic = "" \/ topic \in Range(before) THEN before ELSE Append(before, topic)

\* grouped_insights[topic]
TopicInsights(insights, topic) ==
    SelectSeq(insights, LAMBDA insight : TopicOf(insight) = topic)

\* what _call_ollama and _parse_trend_response give _analyze_topic_trend: an
\* exception, None or an empty dict, a dict
TrendReplies == {"raise", "falsy", "dict"}

\* _analyze_topic_trend: a TrendAnalysis, or None as <<>>
analyze_topic_trend(topic, topic_insights, reply) ==
    IF reply = "dict"
      THEN <<[trend_name |-> topic,
              supporting_evidence |->
                  [i \in 1..Len(topic_insights) |-> topic_insights[i].title]]>>
      ELSE <<>>

\* the loop of analyze_trends over the topics, from the k-th on
RECURSIVE TrendsFrom(_, _, _, _, _)
TrendsFrom(topics, k, insights, replies, least) ==
    IF k > Len(topics)
      THEN <<>>
      ELSE LET topic_insights == TopicInsights(insights, topics[k])
           IN  (IF Len(topic_insights) >= least
                  THEN analyze_topic_trend(topics[k], topic_insights, replies[topics[k]])
                  ELSE <<>>)
                   \o TrendsFrom(topics, k + 1, insights, replies, least)

\* analyze_trends that takes every topic
analyze_trends_all(insights, replies) ==
    TrendsFrom(GroupedTopics(insights), 1, insights, replies, 1)

\* analyze_trends
analyze_trends(insights, replies) ==
    TrendsFrom(GroupedTopics(insights), 1, insights, replies, MinTopicInsights)

TrendsInit ==
    /\ NoOthers
    /\ args \in SeqsUpTo([title : Titles, description : Descriptions], MaxInsights)
    /\ ret = NotReturned

TrendsNext ==
    /\ ~ret.done
    /\ \E replies \in [Topics -> TrendReplies] :
         ret' = Returned(analyze_trends(args, replies))
    /\ UNCHANGED <<args, orchestrator_vars, harvest_vars, invoker>>

TrendsSpec == TrendsInit /\ [][TrendsNext]_vars

\* C19: every trend that analyze_trends returns is for a topic under which
\* at least 2 of the insights are grouped, and its evidence list has at
\* least 2 entries.
C19_TrendNeedsTwoInsights ==
    ret.done
        => \A i \in 1..Len(ret.value) :
             /\ Len(TopicInsights(args, ret.value[i].trend_name)) >= 2
             /\ Len(ret.value[i].supporting_evidence) >= 2

\* one insight under Security and two under AI/ML: one trend, for AI/ML
C19_Witness ==
    /\ ret.done
    /\ Len(TopicInsights(args, "Security")) = 1
    /\ Len(TopicInsights(args, "AI/ML")) = 2
    /\ Len(ret.value) = 1
    /\ ret.value[1].trend_name = "AI/ML"

-----------------------------------------------------------------------------
(* Trends from the model responses: _analyze_topic_trend and                *)
(* _parse_trend_response in scripts/extract.py                              *)

\* number of insights handed to analyze_trends when two topics have a trend
MaxTrendInsights == 4

\* _parse_trend_response: <<the dict>>, or None as <<>>
parse_trend_response(reply) ==
    IF BraceMatch(reply) # <<>> /\ IsJsonObject(BraceMatch(reply))
      THEN <<JsonObject(BraceMatch(reply))>>
      ELSE <<>>

\* a try statement of _analyze_topic_trend that makes a trend of whatever
\* the call has given
trend_reply_synthesized(called) ==
    "dict"

\* the try statement of _analyze_topic_trend, by its outcome: _call_ollama
\* raises when both models have failed, and if trend_data is false of None
\* and of a dict without keys
trend_reply(called) ==
    IF called.raised
      THEN "raise"
      ELSE IF Truthy(parse_trend_response(called.text)) THEN "dict" ELSE "falsy"

\* what _call_ollama does for the prompt of a topic: it raises, or returns
\* one of these texts
TrendTexts ==
    { <<>>, <<"x">>, <<"}", "{">>, <<"{", "x", "}">>, <<"{", "}">>,
      <<"{", "m", "}">>, <<"x", "{", "m", "}", "x">> }

TrendResponses ==
    {[raised |-> TRUE, text |-> <<>>]} \cup [raised : {FALSE}, text : TrendTexts]

\* the insights: two topics of the table and one of no topic
TrendInsights ==
    { [title |-> "Machine Learning", description |-> "weather"],
      [title |-> "security", description |-> "weather"],
      [title |-> "weather", description |-> "weather"] }

TrendTopics == {"AI/ML", "Security"}

TopicTrendsInit ==
    /\ NoOthers
    /\ args \in [insights : SeqsUpTo(TrendInsights, MaxTrendInsights),
                 responses : [TrendTopics -> TrendResponses]]
    /\ ret = NotReturned

TopicTrendsNext ==
    /\ ~ret.done
    /\ ret' = Returned(analyze_trends(args.insights,
                          [topic \in Topics |->
                              IF topic \in TrendTopics
                                THEN trend_reply(args.responses[topic])
                                ELSE "raise"]))
    /\ UNCHANGED <<args, orchestrator_vars, harvest_vars, invoker>>

TopicTrendsSpec == TopicTrendsInit /\ [][TopicTrendsNext]_vars

\* the response gives no JSON object: both models have failed, or there is
\* no text from a '{' to a '}' that is an object
Unparsable(called) ==
    \/ called.raised
    \/ BraceMatch(called.text) = <<>>
    \/ ~IsJsonObject(BraceMatch(called.text))

\* the topics with at least 2 of the insights
TrendableTopics(insights) ==
    {topic \in TrendTopics : Len(TopicInsights(insights, topic)) >= MinTopicInsights}

\* the trends of the topic among the returned ones
TrendsOf(trends, topic) ==
    SelectSeq(trends, LAMBDA trend : trend.trend_name = topic)

\* C29: for a topic with at least 2 insights whose response gives no JSON
\* object, both models failing included, analyze_trends returns no trend;
\* for every other topic with at least 2 insights whose response holds an
\* object with members it returns the trend of that topic, whatever became
\* of the first; and it returns no more trends than there are topics with
\* at least 2 insights.
C29_UnparsableTrendSuppressed ==
    ret.done =>
       /\ \A topic \in TrendableTopics(args.insights) :
             Unparsable(args.responses[topic]) => TrendsOf(ret.value, topic) = <<>>
       /\ \A topic \in TrendableTopics(args.insights) :
             (/\ ~Unparsable(args.responses[topic])
              /\ BraceMatch(args.responses[topic].text) # <<"{", "}">>)
                 => Len(TrendsOf(ret.value, topic)) = 1
       /\ Len(ret.value) <= Cardinality(TrendableTopics(args.insights))

\* two insights under each of two topics; the response for the first topic
\* has braces around something that is no object, the one for the second
\* topic holds an object: one trend, for the second topic
C29_Witness ==
    /\ ret.done
    /\ TrendableTopics(args.insights) = {"AI/ML", "Security"}
    /\ ~args.responses["AI/ML"].raised
    /\ args.responses["AI/ML"].text = <<"{", "x", "}">>
    /\ args.responses["Security"].text = <<"x", "{", "m", "}", "x">>
    /\ Len(ret.value) = 1
    /\ ret.value[1].trend_name = "Security"

-----------------------------------------------------------------------------
(* Topic grouping: _group_insights_by_topic of ContentExtractor in          *)
(* scripts/extract.py and of ReportGenerator in                             *)
(* clients/client1/psai_a/scripts/report.py, on the texts themselves        *)

\* number of insights handed to _group_insights_by_topic
MaxGrouped == 3

\* topic_keywords of ReportGenerator._group_insights_by_topic, in the order
\* of the dictionary
ReportTopicKeywords ==
    << [topic |-> "AI & Machine Learning",
        keywords |-> {"artificial intelligence", "machine learning", "AI", "ML", "neural", "deep learning"}],
       [topic |-> "Technology Trends",
        keywords |-> {"technology", "tech", "software", "hardware", "digital", "innovation"}],
       [topic |-> "Business & Markets",
        keywords |-> {"business", "startup", "company", "market", "investment", "funding"}],
       [topic |-> "Security & Privacy",
        keywords |-> {"security", "privacy", "cybersecurity", "hack", "breach", "data protection"}],
       [topic |-> "Emerging Technologies",
        keywords |-> {"blockchain", "crypto", "quantum", "IoT", "5G", "AR", "VR"}] >>

\* the table of each of the two scripts
topic_keywords(script) ==
    IF script = "extract" THEN TopicKeywords ELSE ReportTopicKeywords

UpperCase == "ABCDEFGHIJKLMNOPQRSTUVWXYZ"

LowerCase == "abcdefghijklmnopqrstuvwxyz"

\* str.lower() of one character
lower_char(c) ==
    LET at == {i \in 1..Len(UpperCase) : SubSeq(UpperCase, i, i) = c}
    IN  IF at = {} THEN c ELSE SubSeq(LowerCase, Least(at), Least(at))

\* str.lower() of a text
RECURSIVE lower_text(_)
lower_text(text) ==
    IF Len(text) = 0
      THEN text
      ELSE lower_char(SubSeq(text, 1, 1)) \o lower_text(SubSeq(text, 2, Len(text)))

\* keyword in content
In(keyword, content) ==
    \E i \in 1..(Len(content) - Len(keyword) + 1) :
        SubSeq(content, i, i + Len(keyword) - 1) = keyword

\* content_lower = (insight.title + ' ' + insight.description).lower()
content_lower(insight) ==
    lower_text(insight.title \o " " \o insight.description)

\* the topics of the table, by their place, for which
\* any(keyword in content_lower for keyword in keywords)
hits(table, insight) ==
    LET content == content_lower(insight)
    IN  {i \in 1..Len(table) : \E keyword \in table[i].keywords : In(keyword, content)}

\* _group_insights_by_topic: the dictionary it returns, as the sequence of
\* its keys in the order of their insertion, each with its list; the loop
\* over the table ends at the first topic with a keyword in the content
RECURSIVE group_insights_by_topic(_, _)
group_insights_by_topic(table, insights) ==
    IF insights = <<>>
      THEN <<>>
      ELSE LET topics == group_insights_by_topic(table, SubSeq(insights, 1, Len(insights) - 1))
               insight == insights[Len(insights)]
               found == hits(table, insight)
           IN  IF found = {}
                 THEN topics
                 ELSE LET topic == table[Least(found)].topic
                          at == {k \in 1..Len(topics) : topics[k].topic = topic}
                      IN  IF at = {}
                            THEN Append(topics, [topic |-> topic, insights |-> <<insight>>])
                            ELSE [topics EXCEPT ![Least(at)].insights = Append(@, insight)]

\* the titles and the descriptions of the insights that are grouped
GroupTitles == {"AI", "Machine learning", "Biotech startup", "weather", "VR"}

GroupDescriptions == {"", "a hack", "ML"}

GroupInit ==
    /\ NoOthers
    /\ args \in [script : {"extract", "report"},
                 insights : SeqsUpTo([title : GroupTitles, description : GroupDescriptions],
                                     MaxGrouped)]
    /\ ret = NotReturned

\* ContentExtractor._group_insights_by_topic
extract_group ==
    /\ args.script = "extract"
    /\ ~ret.done
    /\ ret' = Returned(group_insights_by_topic(TopicKeywords, args.insights))
    /\ UNCHANGED <<args, orchestrator_vars, harvest_vars, invoker>>

\* ReportGenerator._group_insights_by_topic
report_group ==
    /\ args.script = "report"
    /\ ~ret.done
    /\ ret' = Returned(group_insights_by_topic(ReportTopicKeywords, args.insights))
    /\ UNCHANGED <<args, orchestrator_vars, harvest_vars, invoker>>

GroupNext ==
    \/ extract_group
    \/ report_group

GroupSpec == GroupInit /\ [][GroupNext]_vars

\* the keyword occurs in the content, the letter case of both left aside
Matches(keyword, content) ==
    In(lower_text(keyword), lower_text(content))

\* the place in the table of the first topic with a keyword that matches
\* the title plus description of the insight, 0 when there is none
FirstMatch(table, insight) ==
    LET content == insight.title \o " " \o insight.description
        found == {i \in 1..Len(table) :
                    \E keyword \in table[i].keywords : Matches(keyword, content)}
    IN  IF found = {} THEN 0 ELSE Least(found)

\* the list under the topic in the returned groups, empty when the topic is
\* not a key
GroupOf(groups, topic) ==
    LET at == {k \in 1..Len(groups) : groups[k].topic = topic}
    IN  IF at = {} THEN <<>> ELSE groups[Least(at)].insights

\* how many times the element occurs in the sequence
Count(seq, element) ==
    Len(SelectSeq(seq, LAMBDA e : e = element))

\* C27: the group of each topic of the table holds the insights whose first
\* topic, in the order of the table, with a keyword occurring in the title
\* plus description whatever the letter case of either, is that topic; so
\* every insight is in the group of its first matching topic and in no
\* other group, also when keywords of several topics match.
C27_FirstTopicCaseInsensitive ==
    ret.done =>
       LET table == topic_keywords(args.script) IN
       \A i \in 1..Len(table) :
           GroupOf(ret.value, table[i].topic)
               = SelectSeq(args.insights, LAMBDA insight : FirstMatch(table, insight) = i)

\* C28: an insight that matches no keyword of any topic is in no group; no
\* insight is in two groups; the groups together hold exactly the insights
\* that match at least one keyword, as many times as they occur; each group
\* lists its insights in the order of the input.
C28_UnmatchedDropped ==
    ret.done =>
       LET table == topic_keywords(args.script)
           matching == SelectSeq(args.insights, LAMBDA insight : FirstMatch(table, insight) # 0)
       IN  /\ \A k \in 1..Len(ret.value) : \A j \in 1..Len(ret.value[k].insights) :
                 FirstMatch(table, ret.value[k].insights[j]) # 0
           /\ \A k \in 1..Len(ret.value) : \A l \in 1..Len(ret.value) :
                 k # l => Range(ret.value[k].insights) \cap Range(ret.value[l].insights) = {}
           /\ UNION {Range(ret.value[k].insights) : k \in 1..Len(ret.value)} = Range(matching)
           /\ \A insight \in Range(matching) :
                 \E k \in 1..Len(ret.value) :
                     Count(ret.value[k].insights, insight) = Count(args.insights, insight)
           /\ \A k \in 1..Len(ret.value) :
                 ret.value[k].insights
                     = SelectSeq(args.insights,
                                 LAMBDA insight : insight \in Range(ret.value[k].insights))

-----------------------------------------------------------------------------
(* Recommendations: ReportGenerator._generate_recommendations in           *)
(* clients/client1/psai_a/scripts/report.py                                *)

\* number of lines of the model output
MaxLines == 7

\* recommendations[:5]
RecommendationLimit == 5

\* a text is the sequence of its characters; the lines the model output is made of
ReplyLines ==
    { <<"1", ".", "A">>,
      <<" ", "-", " ", "B", " ">>,
      <<"N", "o">>,
      <<>> }

\* "1. Do X", "2. Do Y", "Note: irrelevant", "- Do Z"
ExampleLines ==
    << <<"1", ".", " ", "D", "o", " ", "X">>,
       <<"2", ".", " ", "D", "o", " ", "Y">>,
       <<"N", "o", "t", "e", ":", " ", "i", "r", "r", "e", "l", "e", "v", "a", "n", "t">>,
       <<"-", " ", "D", "o", " ", "Z">> >>

\* '\n'.join(lines)
RECURSIVE Join(_)
Join(lines) ==
    IF lines = <<>> THEN <<>>
    ELSE IF Len(lines) = 1 THEN lines[1]
    ELSE lines[1] \o <<"\n">> \o Join(Tail(lines))

\* str.split('\n')
RECURSIVE split(_)
split(text) ==
    LET breaks == {i \in 1..Len(text) : text[i] = "\n"}
    IN  IF breaks = {}
          THEN <<text>>
          ELSE LET k == Least(breaks)
               IN  <<SubSeq(text, 1, k - 1)>> \o split(SubSeq(text, k + 1, Len(text)))

\* str.isspace() of one character
IsSpace(c) == c \in {" ", "\t", "\n", "\r"}

\* str.strip()
strip(line) ==
    LET inked == {i \in 1..Len(line) : ~IsSpace(line[i])}
    IN  IF inked = {} THEN <<>> ELSE SubSeq(line, Least(inked), Greatest(inked))

\* str.isdigit() of one character; the characters of the model are ASCII
isdigit(c) == c \in {"0", "1", "2", "3", "4", "5", "6", "7", "8", "9"}

\* the test of the loop, true of every line that is not empty
keeps_nonempty(line) ==
    line # <<>>

\* line and (line[0].isdigit() or line.startswith('-'))
keeps(line) ==
    line # <<>> /\ (isdigit(line[1]) \/ line[1] = "-")

\* the loop over response.split('\n')
RECURSIVE recommendations_of(_)
recommendations_of(lines) ==
    IF lines = <<>>
      THEN <<>>
      ELSE (IF keeps(strip(Head(lines))) THEN <<strip(Head(lines))>> ELSE <<>>)
               \o recommendations_of(Tail(lines))

\* the two recommendations of the except clause, each written as one character
DefaultRecommendations ==
    << <<"Monitor key trends identified in this brief">>,
       <<"Review strategic implications of emerging technologies">> >>

\* _generate_recommendations from the return of _call_ollama on
generate_recommendations(raised, reply) ==
    IF raised
      THEN DefaultRecommendations
      ELSE LET recommendations == recommendations_of(split(reply))
           IN  SubSeq(recommendations, 1,
                      IF Len(recommendations) < RecommendationLimit
                        THEN Len(recommendations) ELSE RecommendationLimit)

RecommendationsInit ==
    /\ NoOthers
    /\ \E lines \in SeqsUpTo(ReplyLines, MaxLines) \cup {ExampleLines}, raised \in BOOLEAN :
         args = [lines |-> lines, response |-> Join(lines), raised |-> raised]
    /\ ret = NotReturned

RecommendationsNext ==
    /\ ~ret.done
    /\ ret' = Returned(generate_recommendations(args.raised, args.response))
    /\ UNCHANGED <<args, orchestrator_vars, harvest_vars, invoker>>

RecommendationsSpec == RecommendationsInit /\ [][RecommendationsNext]_vars

\* the lines of the list, without the blanks around them, that start with a
\* digit or a dash, in their order
KeptLines(lines) ==
    SelectSeq([i \in 1..Len(lines) |-> strip(lines[i])],
              LAMBDA line : line # <<>> /\ (isdigit(line[1]) \/ line[1] = "-"))

\* C20: for a model output made of the given lines, joined by line breaks,
\* the recommendations are the stripped lines that start with a digit or a
\* dash, in their order and none else, cut to the first 5; for the output
\* "1. Do X\n2. Do Y\nNote: irrelevant\n- Do Z" they are "1. Do X",
\* "2. Do Y" and "- Do Z".
C20_RecommendationLines ==
    ret.done /\ ~args.raised
        => /\ Len(ret.value) <= 5
           /\ Len(ret.value) = Len(KeptLines(args.lines)) \/ Len(ret.value) = 5
           /\ \A i \in 1..Len(ret.value) : ret.value[i] = KeptLines(args.lines)[i]
           /\ args.lines = ExampleLines
                => ret.value = <<ExampleLines[1], ExampleLines[2], ExampleLines[4]>>

\* seven lines, the first one dropped, the other six kept by the test: five returned
C20_Witness ==
    /\ ret.done
    /\ ~args.raised
    /\ Len(args.lines) = 7
    /\ ~keeps(strip(args.lines[1]))
    /\ Len(KeptLines(args.lines)) = 6
    /\ Len(ret.value) = 5

-----------------------------------------------------------------------------
(* Sections of a brief: ReportGenerator._generate_sections, _create_section *)
(* and _generate_section_content in clients/client1/psai_a/scripts/report.py *)

\* number of insights handed to _generate_sections
MaxSectionInsights == 4

\* the largest max_sections a configuration file gives
MaxSections == 2

\* self.config.get('report', {}).get('max_sections', 5)
DefaultMaxSections == 5

\* the 'report' entry of the configuration: without max_sections, or with one
ReportConfigs ==
    {[keys |-> {}]} \cup [keys : {{"max_sections"}}, max_sections : 0..MaxSections]

\* the insights of the extraction file, by what the sections are made of
SectionInsights ==
    { [title |-> "Machine learning", description |-> ""],
      [title |-> "Biotech startup", description |-> ""],
      [title |-> "weather", description |-> ""] }

\* the trends of the extraction file: one that has the name of a topic of
\* the report in it and one that has not
TrendLists ==
    {<<[trend_name |-> "Technology trends of the week"], [trend_name |-> "AI/ML"]>>}

\* what _call_ollama does for a prompt: it raises, both models having
\* failed, or returns a text: blanks, a word with blanks around it
Calls ==
    {[raised |-> TRUE, text |-> <<>>]}
        \cup [raised : {FALSE}, text : {<<" ">>, <<" ", "A", " ">>}]

\* relevant_trends = [t for t in trends if topic.lower() in t.get('trend_name', '').lower()]
relevant_trends(topic, trends) ==
    SelectSeq(trends, LAMBDA t : In(lower_text(topic), lower_text(t.trend_name)))

\* f"Analysis of {topic} based on {len(insights)} insights and {len(trends)} trends."
SectionPlaceholder(topic, insights, trends) ==
    <<"Analysis of ", topic, " based on ", Len(insights), " insights and ", Len(trends), " trends.">>

\* _generate_section_content
generate_section_content(topic, insights, trends, call) ==
    IF call.raised
      THEN SectionPlaceholder(topic, insights, trends)
      ELSE strip(call.text)

\* _create_section: <<the section>>, or None as <<>>; of the section its
\* title, content and insights
create_section(topic, insights, trends, call) ==
    LET content == generate_section_content(topic, insights, relevant_trends(topic, trends), call)
    IN  IF content = <<>>
          THEN <<>>
          ELSE <<[title |-> topic, content |-> content, insights |-> insights]>>

\* the loop of _generate_sections over topic_groups.items() that takes every
\* topic, from the k-th one on
RECURSIVE sections_from_all(_, _, _, _)
sections_from_all(topic_groups, k, trends, calls) ==
    IF k > Len(topic_groups)
      THEN <<>>
      ELSE create_section(topic_groups[k].topic, topic_groups[k].insights, trends,
                          calls[topic_groups[k].topic])
               \o sections_from_all(topic_groups, k + 1, trends, calls)

\* the loop of _generate_sections over topic_groups.items(), from the k-th
\* topic on
RECURSIVE sections_from(_, _, _, _)
sections_from(topic_groups, k, trends, calls) ==
    IF k > Len(topic_groups)
      THEN <<>>
      ELSE (IF Len(topic_groups[k].insights) >= 2
              THEN create_section(topic_groups[k].topic, topic_groups[k].insights, trends,
                                  calls[topic_groups[k].topic])
              ELSE <<>>)
               \o sections_from(topic_groups, k + 1, trends, calls)

\* _generate_sections, for what _call_ollama does for the prompt of each topic
generate_sections(insights, trends, config, calls) ==
    LET topic_groups == group_insights_by_topic(ReportTopicKeywords, insights)
        sections == sections_from(topic_groups, 1, trends, calls)
        max_sections == get(config, "max_sections", DefaultMaxSections)
    IN  FirstN(sections, max_sections)

ReportTopics == {ReportTopicKeywords[i].topic : i \in 1..Len(ReportTopicKeywords)}

\* the topics the insights of the model come under
SectionTopics == {"AI & Machine Learning", "Technology Trends"}

SectionsInit ==
    /\ NoOthers
    /\ args \in [insights : SeqsUpTo(SectionInsights, MaxSectionInsights),
                 trends : TrendLists,
                 config : ReportConfigs,
                 calls : [SectionTopics -> Calls]]
    /\ ret = NotReturned

SectionsNext ==
    /\ ~ret.done
    /\ ret' = Returned(generate_sections(
                           args.insights, args.trends, args.config,
                           [topic \in ReportTopics |->
                               IF topic \in SectionTopics
                                 THEN args.calls[topic]
                                 ELSE [raised |-> TRUE, text |-> <<>>]]))
    /\ UNCHANGED <<args, orchestrator_vars, harvest_vars, invoker>>

SectionsSpec == SectionsInit /\ [][SectionsNext]_vars

\* C32: every section of the brief has the name of a topic under which at
\* least 2 of the insights are grouped; no two sections have the same
\* topic; and there are no more sections than the configured maximum
\* section count, 5 when the configuration has none.
C32_SectionsBounded ==
    ret.done =>
       /\ \A i \in 1..Len(ret.value) :
             Len(SelectSeq(args.insights,
                           LAMBDA insight :
                               LET found == hits(ReportTopicKeywords, insight)
                               IN  found # {} /\ ReportTopicKeywords[Least(found)].topic
                                                    = ret.value[i].title)) >= 2
       /\ \A i \in 1..Len(ret.value) : \A j \in 1..Len(ret.value) :
             ret.value[i].title = ret.value[j].title => i = j
       /\ Len(ret.value) <= (IF "max_sections" \in args.config.keys
                               THEN args.config.max_sections ELSE 5)

\* two topics with two insights each, a text for each, and a configured
\* maximum of one section: one section, for the topic that came first
C32_Witness ==
    /\ ret.done
    /\ Len(args.insights) = 4
    /\ args.insights[1].title = "Biotech startup"
    /\ \A topic \in SectionTopics :
          /\ ~args.calls[topic].raised
          /\ strip(args.calls[topic].text) # <<>>
          /\ Len(GroupOf(group_insights_by_topic(ReportTopicKeywords, args.insights), topic)) = 2
    /\ "max_sections" \in args.config.keys
    /\ args.config.max_sections = 1
    /\ Len(ret.value) = 1
    /\ ret.value[1].title = "Technology Trends"

-----------------------------------------------------------------------------
(* Key findings of a brief: ReportGenerator._extract_key_findings in        *)
(* clients/client1/psai_a/scripts/report.py                                 *)

\* number of insights handed to _extract_key_findings
MaxFindingInsights == 7

\* number of trends handed to _extract_key_findings
MaxFindingTrends == 4

\* high_confidence_insights[:5]
FindingInsightLimit == 5

\* trends[:3]
FindingTrendLimit == 3

\* i.get('confidence', 0) > 0.7, in hundredths
FindingConfidence == 70

\* insight.get('description', '')[:100]
FindingCut == 100

\* the insights of the extraction file: the confidence above, at, below the
\* threshold or missing; the title there or not; the description short or
\* longer than the cut
FindingInsights ==
    { [keys |-> {"title", "description", "confidence"}, title |-> "a",
       description |-> [chars |-> <<"x">>, filler |-> 0], confidence |-> 90],
      [keys |-> {"description", "confidence"},
       description |-> [chars |-> <<"x">>, filler |-> 150], confidence |-> 80],
      [keys |-> {"title", "description", "confidence"}, title |-> "b",
       description |-> [chars |-> <<"x">>, filler |-> 0], confidence |-> 70],
      [keys |-> {"title"}, title |-> "c"] }

\* the trends of the extraction file
FindingTrends ==
    { [keys |-> {"trend_name", "momentum", "confidence"},
       trend_name |-> "AI/ML", momentum |-> "rising", confidence |-> 80] }

\* f"{insight.get('title', 'Key Insight')}: {insight.get('description', '')[:100]}..."
InsightFinding(insight) ==
    <<get(insight, "title", "Key Insight"), ": ",
      Slice(get(insight, "description", EmptyText), FindingCut), "...">>

\* f"Trend: {trend_name} is {momentum} with {confidence:.1%} confidence"
TrendFinding(trend) ==
    <<"Trend: ", get(trend, "trend_name", "Unknown"), " is ",
      get(trend, "momentum", "stable"), " with ", get(trend, "confidence", 50),
      " confidence">>

\* _extract_key_findings that takes the insights with a confidence of 0.7 as well
extract_key_findings_from(insights, trends) ==
    LET high_confidence_insights ==
            SelectSeq(insights, LAMBDA i : get(i, "confidence", 0) >= FindingConfidence)
        top == FirstN(high_confidence_insights, FindingInsightLimit)
        first == FirstN(trends, FindingTrendLimit)
    IN  [k \in 1..Len(top) |-> InsightFinding(top[k])]
            \o [k \in 1..Len(first) |-> TrendFinding(first[k])]

\* _extract_key_findings
extract_key_findings(insights, trends) ==
    LET high_confidence_insights ==
            SelectSeq(insights, LAMBDA i : get(i, "confidence", 0) > FindingConfidence)
        top == FirstN(high_confidence_insights, FindingInsightLimit)
        first == FirstN(trends, FindingTrendLimit)
    IN  [k \in 1..Len(top) |-> InsightFinding(top[k])]
            \o [k \in 1..Len(first) |-> TrendFinding(first[k])]

FindingsInit ==
    /\ NoOthers
    /\ args \in [insights : SeqsUpTo(FindingInsights, MaxFindingInsights),
                 trends : SeqsUpTo(FindingTrends, MaxFindingTrends)]
    /\ ret = NotReturned

FindingsNext ==
    /\ ~ret.done
    /\ ret' = Returned(extract_key_findings(args.insights, args.trends))
    /\ UNCHANGED <<args, orchestrator_vars, harvest_vars, invoker>>

FindingsSpec == FindingsInit /\ [][FindingsNext]_vars

\* the findings made of insights: they end in '...'
OfInsights(findings) ==
    SelectSeq(findings, LAMBDA finding : Len(finding) = 4)

\* the findings made of trends: they begin with 'Trend: '
OfTrends(findings) ==
    SelectSeq(findings, LAMBDA finding : Len(finding) = 7)

\* C33: the key findings are a function of the insights and the trends
\* alone: at most 5 findings of insights, each with the title of an insight
\* whose confidence is above 0.7, in the order of the insights, then at most
\* 3 findings of trends, and nothing else; no finding has the title of an
\* insight with a confidence of 0.7 or less, or without one; the list has
\* at most 8 entries.
C33_KeyFindings ==
    ret.done =>
       LET high == SelectSeq(args.insights,
                             LAMBDA i : "confidence" \in i.keys /\ i.confidence > 70)
           ins == OfInsights(ret.value)
           trs == OfTrends(ret.value)
       IN  /\ ret.value = ins \o trs
           /\ Len(ins) <= 5
           /\ Len(ins) = (IF Len(high) < 5 THEN Len(high) ELSE 5)
           /\ \A k \in 1..Len(ins) :
                 ins[k][1] = (IF "title" \in high[k].keys THEN high[k].title ELSE "Key Insight")
           /\ \A k \in 1..Len(ins) : ins[k][1] \notin {"b", "c"}
           /\ Len(trs) <= 3
           /\ Len(trs) = (IF Len(args.trends) < 3 THEN Len(args.trends) ELSE 3)
           /\ Len(ret.value) <= 8

\* six insights with a confidence above 0.7 after one with 0.7, and four
\* trends: eight findings, the first of them of the second insight
C33_Witness ==
    /\ ret.done
    /\ Len(args.insights) = 7
    /\ get(args.insights[1], "confidence", 0) = 70
    /\ \A k \in 2..7 : args.insights[k].keys = {"description", "confidence"}
    /\ Len(args.trends) = 4
    /\ Len(ret.value) = 8
    /\ ret.value[1][1] = "Key Insight"

\* ---------------------------------------------------------------------------
\* The weekly brief
\* ---------------------------------------------------------------------------

\* the longest list of insights of an extraction file
MaxBriefInsights == 3

\* the insights of the extraction file: one that comes under a topic of the
\* report, with a confidence above the threshold of the findings, and one
\* that comes under none; their description is empty
BriefInsights ==
    { [keys |-> {"title", "description", "confidence"},
       title |-> "Biotech startup", description |-> "", confidence |-> 90],
      [keys |-> {"title", "description", "confidence"},
       title |-> "weather", description |-> "", confidence |-> 50] }

\* the trends of the extraction file: none, or one that has the name of a
\* topic of the report in it
BriefTrendLists ==
    { <<>>,
      <<[keys |-> {"trend_name", "momentum", "confidence"},
         trend_name |-> "Technology trends of the week", momentum |-> "rising",
         confidence |-> 80]>> }

\* what _call_ollama does for the prompt of the recommendations: it raises,
\* or returns a text: an empty one, or a numbered line and another line
RecommendationCalls ==
    {[raised |-> TRUE, text |-> <<>>]}
        \cup [raised : {FALSE}, text : {<<>>, <<"1", ".", "\n", "x">>}]

\* datetime.now(), as the brief shows it
Clock == {"Monday", "Tuesday"}

\* f"Executive summary covering {len(sections)} key areas and {len(trends)} major trends."
SummaryPlaceholder(sections, trends) ==
    <<"Executive summary covering ", Len(sections), " key areas and ", Len(trends),
      " major trends.">>

\* _generate_executive_summary whose except clause returns an empty text
generate_executive_summary_blank(sections, trends, call) ==
    IF call.raised
      THEN <<>>
      ELSE strip(call.text)

\* _generate_executive_summary
generate_executive_summary(sections, trends, call) ==
    IF call.raised
      THEN SummaryPlaceholder(sections, trends)
      ELSE strip(call.text)

\* _generate_title: the template of the default configuration
generate_title(now) ==
    <<"Culture Current Weekly Brief - ", now>>

\* WeeklyBrief(...), approval_status, approved_by and approved_at left to
\* the defaults of the dataclass
WeeklyBrief(title, executive_summary, sections, trends, key_findings, recommendations, generated_at, metadata) ==
    [title |-> title,
     executive_summary |-> executive_summary,
     sections |-> sections,
     trends |-> trends,
     key_findings |-> key_findings,
     recommendations |-> recommendations,
     generated_at |-> generated_at,
     metadata |-> metadata,
     approval_status |-> "pending",
     approved_by |-> None,
     approved_at |-> None]

\* generate_weekly_brief, for what _call_ollama does for the prompt of each
\* section, of the summary and of the recommendations; the descriptions of
\* the insights are empty, and the findings slice them as the empty text
generate_weekly_brief(insights, trends, calls, summary, recommended, now) ==
    LET sections == generate_sections(insights, trends, [keys |-> {}], calls)
        executive_summary == generate_executive_summary(sections, trends, summary)
        key_findings ==
            extract_key_findings(
                [k \in 1..Len(insights) |-> [insights[k] EXCEPT !.description = EmptyText]],
                trends)
        recommendations == generate_recommendations(recommended.raised, recommended.text)
    IN  WeeklyBrief(generate_title(now), executive_summary, sections, trends,
                    key_findings, recommendations, now,
                    [total_insights |-> Len(insights), total_trends |-> Len(trends),
                     generation_model |-> "llama3.1", config_version |-> "1.0"])

BriefInit ==
    /\ NoOthers
    /\ args \in [insights : SeqsUpTo(BriefInsights, MaxBriefInsights),
                 trends : BriefTrendLists,
                 calls : [SectionTopics -> Calls],
                 summary : Calls,
                 recommendations : RecommendationCalls]
    /\ ret = NotReturned

\* the call of generate_weekly_brief with the arguments of the model
called_generate_weekly_brief(now) ==
    generate_weekly_brief(args.insights, args.trends,
                          [topic \in ReportTopics |->
                              IF topic \in SectionTopics
                                THEN args.calls[topic]
                                ELSE [raised |-> TRUE, text |-> <<>>]],
                          args.summary, args.recommendations, now)

BriefNext ==
    /\ ~ret.done
    /\ \E now \in Clock : ret' = Returned(called_generate_weekly_brief(now))
    /\ UNCHANGED <<args, orchestrator_vars, harvest_vars, invoker>>

BriefSpec == BriefInit /\ [][BriefNext]_vars

\* a WeeklyBrief that nobody has approved
NewBrief(brief) ==
    /\ DOMAIN brief = {"title", "executive_summary", "sections", "trends",
                       "key_findings", "recommendations", "generated_at",
                       "metadata", "approval_status", "approved_by", "approved_at"}
    /\ brief.approval_status = "pending"
    /\ brief.approved_by = None
    /\ brief.approved_at = None

\* the insights that come under the topic, in their order
Under(topic, insights) ==
    SelectSeq(insights,
              LAMBDA insight :
                  LET found == hits(ReportTopicKeywords, insight)
                  IN  found # {} /\ ReportTopicKeywords[Least(found)].topic = topic)

\* C37: whatever the model calls do, generate_weekly_brief called with them
\* yields a value, and what it returns is a brief with approval status
\* pending, no approver and no approval time; when the call for the executive summary failed the
\* summary is the fixed text with the numbers of sections and trends; when
\* the call for the body of a section failed the topic has its section all
\* the same, with the fixed text as its body; when the call for the
\* recommendations failed they are the two default recommendations.
C37_BriefAlwaysReturned ==
    /\ ~ret.done => \A now \in Clock : NewBrief(called_generate_weekly_brief(now))
    /\ ret.done =>
         LET brief == ret.value
         IN  /\ NewBrief(brief)
             /\ args.summary.raised
                  => brief.executive_summary
                       = <<"Executive summary covering ", Len(brief.sections),
                           " key areas and ", Len(args.trends), " major trends.">>
             /\ \A topic \in SectionTopics :
                  (args.calls[topic].raised /\ Len(Under(topic, args.insights)) >= 2)
                    => \E i \in 1..Len(brief.sections) :
                         /\ brief.sections[i].title = topic
                         /\ brief.sections[i].content
                              = <<"Analysis of ", topic, " based on ",
                                  Len(Under(topic, args.insights)), " insights and ",
                                  Len(SelectSeq(args.trends,
                                                LAMBDA t : In(lower_text(topic),
                                                              lower_text(t.trend_name)))),
                                  " trends.">>
             /\ args.recommendations.raised
                  => /\ Len(brief.recommendations) = 2
                     /\ brief.recommendations
                          = << <<"Monitor key trends identified in this brief">>,
                               <<"Review strategic implications of emerging technologies">> >>

\* every call failed, for a topic with two insights and one trend: a brief
\* with one section, the three fixed texts, and approval pending
C37_Witness ==
    /\ ret.done
    /\ \A topic \in SectionTopics : args.calls[topic].raised
    /\ args.summary.raised
    /\ args.recommendations.raised
    /\ Len(args.trends) = 1
    /\ Len(ret.value.sections) = 1
    /\ ret.value.sections[1].content[6] = 1
    /\ ret.value.executive_summary[2] = 1
    /\ Len(ret.value.recommendations) = 2
    /\ ret.value.approval_status = "pending"

=============================================================================
